---------------------------- MODULE Spec2Model ----------------------------
(***************************************************************************)
(* A model of the Lox tree-walking interpreter: the static resolver        *)
(* (resolver.rs), the scope arena (environment.rs), the evaluator          *)
(* (stmt.rs, expr.rs, function.rs, object.rs) and the run driver           *)
(* (Lox::exec).  Rust functions returning LoxResult are operators that     *)
(* return a record [ok, st, v, err]; `?` is the early return on ~ok.       *)
(* A panic (unwrap, expect, assert!, index out of range) is a result with  *)
(* err.kind = "Panic".                                                     *)
(*                                                                         *)
(* Numbers are modelled as integers (the programs below use only +, -, <   *)
(* on small integers); strings are TLA+ strings.                           *)
(***************************************************************************)
EXTENDS Integers, Sequences, FiniteSets, TLC

(***************************************************************************)
(* Option<T>                                                               *)
(***************************************************************************)
None == [some |-> FALSE]
Some(x) == [some |-> TRUE, v |-> x]

(***************************************************************************)
(* HashMap<String, T>: a function whose domain is the set of keys.         *)
(***************************************************************************)
EmptyMap == [k \in {} |-> None]
Insert(m, key, value) == [k \in (DOMAIN m) \cup {key} |-> IF k = key THEN value ELSE m[k]]
ContainsKey(m, key) == key \in DOMAIN m
MapGet(m, key) == IF key \in DOMAIN m THEN Some(m[key]) ELSE None

(***************************************************************************)
(* LoxValue                                                                *)
(***************************************************************************)
Nil == [t |-> "Nil"]
Boolean(b) == [t |-> "Boolean", b |-> b]
Number(n) == [t |-> "Number", n |-> n]
String(s) == [t |-> "String", s |-> s]
\* Rc<RefCell<LoxObject>>: a reference into the interpreter's object cells
Object(ref) == [t |-> "Object", ref |-> ref]
\* Rc<LoxProperties>: the (immutable) super-method table
SuperTable(props) == [t |-> "Super", props |-> props]

is_truthy(value) ==
    CASE value.t = "Nil" -> FALSE
      [] value.t = "Boolean" -> value.b
      [] OTHER -> TRUE

(***************************************************************************)
(* ExprKind / Expr.  Every expression carries _id, set by Expr::new from   *)
(* the EXPR_COUNT counter; the constructors below leave it 0 and           *)
(* NumberStmts assigns the ids in construction order (children first).     *)
(* A Literal holds the LoxValue its token converts to (From<Token>).       *)
(***************************************************************************)
Literal(value) == [kind |-> "Literal", value |-> value, id |-> 0]
Unary(operator, right) == [kind |-> "Unary", operator |-> operator, right |-> right, id |-> 0]
Binary(operator, left, right) ==
    [kind |-> "Binary", operator |-> operator, left |-> left, right |-> right, id |-> 0]
Grouping(inner) == [kind |-> "Grouping", inner |-> inner, id |-> 0]
Identifier(name) == [kind |-> "Identifier", name |-> name, id |-> 0]
Assignment(name, value) == [kind |-> "Assignment", name |-> name, value |-> value, id |-> 0]
Logical(operator, left, right) ==
    [kind |-> "Logical", operator |-> operator, left |-> left, right |-> right, id |-> 0]
Call(callee, arguments) == [kind |-> "Call", callee |-> callee, arguments |-> arguments, id |-> 0]
Get(left, right) == [kind |-> "Get", left |-> left, right |-> right, id |-> 0]
Set(object, identifier, value) ==
    [kind |-> "Set", object |-> object, identifier |-> identifier, value |-> value, id |-> 0]
This == [kind |-> "This", id |-> 0]
Super(method) == [kind |-> "Super", method |-> method, id |-> 0]

(***************************************************************************)
(* Stmt                                                                    *)
(***************************************************************************)
ExprStmt(expr) == [kind |-> "Expr", expr |-> expr]
PrintStmt(expr) == [kind |-> "Print", expr |-> expr]
Var(name, initializer) == [kind |-> "Var", name |-> name, initializer |-> initializer]
Block(statements) == [kind |-> "Block", statements |-> statements]
IfElse(condition, body, else_branch) ==
    [kind |-> "IfElse", condition |-> condition, body |-> body, else_branch |-> else_branch]
WhileLoop(condition, body) == [kind |-> "WhileLoop", condition |-> condition, body |-> body]
Fun(name, params, body) == [kind |-> "Fun", name |-> name, params |-> params, body |-> body]
Return(expr) == [kind |-> "Return", expr |-> expr]
Class(name, superclass, methods) ==
    [kind |-> "Class", name |-> name, superclass |-> superclass, methods |-> methods]
\* the source form `for (initializer condition; iterator) body`; the parser
\* emits no such node (see NumberStmt), it is only how programs are written
ForSource(initializer, condition, iterator, body) ==
    [kind |-> "For", initializer |-> initializer, condition |-> condition,
     iterator |-> iterator, body |-> body]

(***************************************************************************)
(* get_expr_id / Expr::new: ids are taken from a counter, an expression's  *)
(* sub-expressions being constructed (numbered) before the expression.     *)
(* Each operator returns [x |-> the numbered tree, n |-> the next id].     *)
(* Parser::for_statement parses initializer, condition, iterator and body  *)
(* in this order and returns                                               *)
(*   Block[initializer, WhileLoop(condition, Block[body, Expr(iterator)])] *)
(***************************************************************************)
RECURSIVE NumberExpr(_, _), NumberExprs(_, _), NumberStmt(_, _), NumberStmts(_, _)
NumberExpr(e, n) ==
    CASE e.kind \in {"Literal", "Identifier", "This", "Super"} ->
           [x |-> [e EXCEPT !.id = n], n |-> n + 1]
      [] e.kind = "Unary" ->
           LET r == NumberExpr(e.right, n)
           IN  [x |-> [e EXCEPT !.right = r.x, !.id = r.n], n |-> r.n + 1]
      [] e.kind \in {"Binary", "Logical"} ->
           LET l == NumberExpr(e.left, n)
               r == NumberExpr(e.right, l.n)
           IN  [x |-> [e EXCEPT !.left = l.x, !.right = r.x, !.id = r.n], n |-> r.n + 1]
      [] e.kind = "Grouping" ->
           LET r == NumberExpr(e.inner, n)
           IN  [x |-> [e EXCEPT !.inner = r.x, !.id = r.n], n |-> r.n + 1]
      [] e.kind = "Assignment" ->
           \* the target is constructed as an Identifier first (Parser::assignemnt)
           LET r == NumberExpr(e.value, n + 1)
           IN  [x |-> [e EXCEPT !.value = r.x, !.id = r.n], n |-> r.n + 1]
      [] e.kind = "Call" ->
           LET c == NumberExpr(e.callee, n)
               a == NumberExprs(e.arguments, c.n)
           IN  [x |-> [e EXCEPT !.callee = c.x, !.arguments = a.x, !.id = a.n], n |-> a.n + 1]
      [] e.kind = "Get" ->
           LET l == NumberExpr(e.left, n)
           IN  [x |-> [e EXCEPT !.left = l.x, !.id = l.n], n |-> l.n + 1]
      [] e.kind = "Set" ->
           LET o == NumberExpr(e.object, n)
               v == NumberExpr(e.value, o.n)
           IN  [x |-> [e EXCEPT !.object = o.x, !.value = v.x, !.id = v.n], n |-> v.n + 1]
NumberExprs(es, n) ==
    IF es = <<>> THEN [x |-> <<>>, n |-> n]
    ELSE LET h == NumberExpr(Head(es), n)
             t == NumberExprs(Tail(es), h.n)
         IN  [x |-> <<h.x>> \o t.x, n |-> t.n]
NumberStmt(s, n) ==
    CASE s.kind \in {"Expr", "Print", "Return"} ->
           LET r == NumberExpr(s.expr, n) IN [x |-> [s EXCEPT !.expr = r.x], n |-> r.n]
      [] s.kind = "Var" ->
           IF s.initializer.some
           THEN LET r == NumberExpr(s.initializer.v, n)
                IN  [x |-> [s EXCEPT !.initializer = Some(r.x)], n |-> r.n]
           ELSE [x |-> s, n |-> n]
      [] s.kind = "Block" ->
           LET r == NumberStmts(s.statements, n)
           IN  [x |-> [s EXCEPT !.statements = r.x], n |-> r.n]
      [] s.kind = "IfElse" ->
           LET c == NumberExpr(s.condition, n)
               b == NumberStmt(s.body, c.n)
               e == IF s.else_branch.some
                    THEN LET r == NumberStmt(s.else_branch.v, b.n)
                         IN  [x |-> Some(r.x), n |-> r.n]
                    ELSE [x |-> None, n |-> b.n]
           IN  [x |-> [s EXCEPT !.condition = c.x, !.body = b.x, !.else_branch = e.x],
                n |-> e.n]
      [] s.kind = "WhileLoop" ->
           LET c == NumberExpr(s.condition, n)
               b == NumberStmt(s.body, c.n)
           IN  [x |-> [s EXCEPT !.condition = c.x, !.body = b.x], n |-> b.n]
      [] s.kind = "Fun" ->
           LET r == NumberStmts(s.body, n)
           IN  [x |-> [s EXCEPT !.body = r.x], n |-> r.n]
      [] s.kind = "For" ->
           LET i == NumberStmt(s.initializer, n)
               c == NumberExpr(s.condition, i.n)
               t == NumberExpr(s.iterator, c.n)
               b == NumberStmt(s.body, t.n)
           IN  [x |-> Block(<<i.x, WhileLoop(c.x, Block(<<b.x, ExprStmt(t.x)>>))>>),
                n |-> b.n]
      [] s.kind = "Class" ->
           LET c == IF s.superclass.some
                    THEN LET r == NumberExpr(s.superclass.v, n)
                         IN  [x |-> Some(r.x), n |-> r.n]
                    ELSE [x |-> None, n |-> n]
               m == NumberStmts(s.methods, c.n)
           IN  [x |-> [s EXCEPT !.superclass = c.x, !.methods = m.x], n |-> m.n]
NumberStmts(ss, n) ==
    IF ss = <<>> THEN [x |-> <<>>, n |-> n]
    ELSE LET h == NumberStmt(Head(ss), n)
             t == NumberStmts(Tail(ss), h.n)
         IN  [x |-> <<h.x>> \o t.x, n |-> t.n]

(***************************************************************************)
(* LoxError / LoxResult                                                    *)
(***************************************************************************)
Runtime(message) == [kind |-> "Runtime", message |-> message]
Resolution(message) == [kind |-> "Resolution", message |-> message]
Panic(message) == [kind |-> "Panic", message |-> message]
\* unbounded recursion of the interpreter itself: the process is killed
StackOverflow == [kind |-> "Abort", message |-> "stack overflow"]
NoError == [kind |-> "None", message |-> ""]
Syntax(message) == [kind |-> "Syntax", message |-> message]

(***************************************************************************)
(* Token and Parser (basic/scanner.rs, basic/parser.rs).  A token is       *)
(* [kind, lexeme, literal]; line numbers are left out.  The parser state   *)
(* is [tokens, current, count]: current is the 0-based cursor of the       *)
(* source, count is EXPR_COUNT, from which Expr::new numbers every         *)
(* expression when it is constructed.  Every parsing function returns      *)
(* [ok, p, x, err]: the parser state after it, and its value or its error. *)
(***************************************************************************)
Token_new(kind, lexeme, literal) == [kind |-> kind, lexeme |-> lexeme, literal |-> literal]

LoxValue_from(token) == IF token.literal.some THEN token.literal.v ELSE Nil

MAX_ARGUMENTS == 255

Parser_new(tokens) == [tokens |-> tokens, current |-> 0, count |-> 0]

POk(p, x) == [ok |-> TRUE, p |-> p, x |-> x, err |-> NoError]
PErr(p, error) == [ok |-> FALSE, p |-> p, x |-> Nil, err |-> error]

Expr_new(p, kind) == POk([p EXCEPT !.count = @ + 1], [kind EXCEPT !.id = p.count])

Parser_is_at_end(p) == p.current >= Len(p.tokens)

Parser_peek(p) == p.tokens[p.current + 1]

Parser_previous(p) == p.tokens[p.current]

Parser_check(p, kind) == IF Parser_is_at_end(p) THEN FALSE ELSE Parser_peek(p).kind = kind

Parser_advance(p) == IF ~Parser_is_at_end(p) THEN [p EXCEPT !.current = @ + 1] ELSE p

Parser_match_tokens(p, kinds) ==
    IF \E kind \in kinds : Parser_check(p, kind)
    THEN [matched |-> TRUE, p |-> Parser_advance(p)]
    ELSE [matched |-> FALSE, p |-> p]

\* the error carries self.peek().line: past the last token peek() indexes
\* out of bounds
Parser_syntax_error(p, message) ==
    IF Parser_is_at_end(p) THEN Panic("index out of bounds") ELSE Syntax(message)

Parser_consume(p, kind, err_msg) ==
    IF Parser_check(p, kind)
    THEN POk(Parser_advance(p), Parser_peek(p))
    ELSE PErr(p, Parser_syntax_error(p, err_msg))

\* synchronize() that stops after a semicolon only
Parser_synchronize_to_semicolon(p) ==
    LET start == Parser_advance(p)
        Stops(c) == LET q == [p EXCEPT !.current = c]
                    IN  \/ Parser_is_at_end(q)
                        \/ Parser_previous(q).kind = "Semicolon"
        stops == {c \in start.current..Len(p.tokens) : Stops(c)}
    IN  [p EXCEPT !.current = CHOOSE c \in stops : \A d \in stops : c <= d]
\* synchronize(): one advance, then `while !is_at_end()` advances until the
\* previous token is a semicolon or the next one starts a statement; the
\* cursor ends at the first position from which the loop returns or stops
Parser_synchronize(p) ==
    LET start == Parser_advance(p)
        Stops(c) == LET q == [p EXCEPT !.current = c]
                    IN  \/ Parser_is_at_end(q)
                        \/ Parser_previous(q).kind = "Semicolon"
                        \/ Parser_peek(q).kind \in
                              {"Class", "Fun", "Var", "For", "If", "While", "Print", "Return"}
        stops == {c \in start.current..Len(p.tokens) : Stops(c)}
    IN  [p EXCEPT !.current = CHOOSE c \in stops : \A d \in stops : c <= d]

\* the binary levels of the expression grammar: the operators a level
\* matches, the level below it and the node it builds
BinaryLevels ==
    [logic_or   |-> [kinds |-> {"Or"}, next |-> "logic_and", node |-> "Logical"],
     logic_and  |-> [kinds |-> {"And"}, next |-> "equality", node |-> "Logical"],
     equality   |-> [kinds |-> {"BangEqual", "EqualEqual"}, next |-> "comparison", node |-> "Binary"],
     comparison |-> [kinds |-> {"Greater", "GreaterEqual", "Less", "LessEqual"}, next |-> "term",
                     node |-> "Binary"],
     term       |-> [kinds |-> {"Minus", "Plus"}, next |-> "factor", node |-> "Binary"],
     factor     |-> [kinds |-> {"Slash", "Star"}, next |-> "unary", node |-> "Binary"]]

\* Parser_rule(rule, p, x) is the parsing function `rule` run in state p;
\* the rules named "..._loop" and "..._body" are the loops of a function,
\* x being the loop's local variables; x is Nil where a rule takes none
RECURSIVE Parser_rule(_, _, _)
Parser_rule(rule, p, x) ==
    CASE rule = "declaration" ->
           LET f == Parser_match_tokens(p, {"Fun"})
               v == Parser_match_tokens(p, {"Var"})
           IN  IF f.matched THEN Parser_rule("function", f.p, Nil)
               ELSE IF v.matched THEN Parser_rule("var_declaration", v.p, Nil)
               ELSE Parser_rule("statement", p, Nil)
      [] rule = "function" ->
           LET name == Parser_consume(p, "Identifier", "Expected identifier")
               lp == Parser_consume(name.p, "LeftParen", "Expected opening parenthesis")
               params == Parser_rule("fun_parameters", lp.p, Nil)
               rp == Parser_consume(params.p, "RightParen", "Expected closing parenthesis")
               lb == Parser_consume(rp.p, "LeftBrace", "Expected opening brace")
           IN  IF ~name.ok THEN name
               ELSE IF ~lp.ok THEN lp
               ELSE IF ~params.ok THEN params
               ELSE IF ~rp.ok THEN rp
               ELSE IF ~lb.ok THEN lb
               ELSE Parser_rule("function_body", lb.p,
                                [name |-> name.x.lexeme, params |-> params.x, body |-> <<>>])
      [] rule = "function_body" ->
           LET rb == Parser_match_tokens(p, {"RightBrace"})
               d == Parser_rule("declaration", p, Nil)
           IN  IF rb.matched \/ Parser_is_at_end(p)
               THEN POk(rb.p, Fun(x.name, x.params, x.body))
               ELSE IF ~d.ok THEN d
               ELSE Parser_rule("function_body", d.p, [x EXCEPT !.body = Append(@, d.x)])
      [] rule = "fun_parameters" ->
           LET m == Parser_match_tokens(p, {"Identifier"})
           IN  IF m.matched
               THEN Parser_rule("fun_parameters_loop", m.p, <<Parser_previous(m.p).lexeme>>)
               ELSE POk(p, <<>>)
      [] rule = "fun_parameters_loop" ->
           LET m == Parser_match_tokens(p, {"Identifier"})
               c == Parser_consume(m.p, "Comma", "Expected comma")
           IN  IF ~m.matched THEN POk(p, x)
               ELSE IF ~c.ok THEN c
               ELSE Parser_rule("fun_parameters_loop", c.p, Append(x, Parser_previous(c.p).lexeme))
      [] rule = "var_declaration" ->
           LET identifier == Parser_consume(p, "Identifier", "Expected identifier")
               eq == Parser_match_tokens(identifier.p, {"Equal"})
               expr == Parser_rule("expression", eq.p, Nil)
               after == IF eq.matched THEN expr.p ELSE eq.p
               semi == Parser_consume(after, "Semicolon", "Expected a semicolon")
           IN  IF ~identifier.ok THEN identifier
               ELSE IF eq.matched /\ ~expr.ok THEN expr
               ELSE IF ~semi.ok THEN semi
               ELSE POk(semi.p, Var(identifier.x.lexeme, IF eq.matched THEN Some(expr.x) ELSE None))
      [] rule = "statement" ->
           LET m == Parser_match_tokens(p, {"For", "If", "Print", "Return", "While", "LeftBrace"})
               keyword == Parser_previous(m.p).kind
           IN  IF ~m.matched THEN Parser_rule("expression_statement", p, Nil)
               ELSE IF keyword = "For" THEN Parser_rule("for_statement", m.p, Nil)
               ELSE IF keyword = "If" THEN Parser_rule("if_statement", m.p, Nil)
               ELSE IF keyword = "Print" THEN Parser_rule("print_statement", m.p, Nil)
               ELSE IF keyword = "Return" THEN Parser_rule("return_statement", m.p, Nil)
               ELSE IF keyword = "While" THEN Parser_rule("while_statement", m.p, Nil)
               ELSE Parser_rule("block", m.p, <<>>)
      [] rule \in {"expression_statement", "print_statement"} ->
           LET expr == Parser_rule("expression", p, Nil)
               semi == Parser_consume(expr.p, "Semicolon", "Expected a semicolon")
           IN  IF ~expr.ok THEN expr
               ELSE IF ~semi.ok THEN semi
               ELSE POk(semi.p, IF rule = "print_statement" THEN PrintStmt(expr.x) ELSE ExprStmt(expr.x))
      [] rule = "for_statement" ->
           LET lp == Parser_consume(p, "LeftParen", "Expected opening parenthesis")
               v == Parser_match_tokens(lp.p, {"Var"})
               initializer == IF v.matched THEN Parser_rule("var_declaration", v.p, Nil)
                              ELSE Parser_rule("expression_statement", lp.p, Nil)
               condition == Parser_rule("expression", initializer.p, Nil)
               semi == Parser_consume(condition.p, "Semicolon", "Expected semicolon")
               iterator == Parser_rule("expression", semi.p, Nil)
               rp == Parser_consume(iterator.p, "RightParen", "Expected closing parenthesis")
               body == Parser_rule("statement", rp.p, Nil)
           IN  IF ~lp.ok THEN lp
               ELSE IF ~initializer.ok THEN initializer
               ELSE IF ~condition.ok THEN condition
               ELSE IF ~semi.ok THEN semi
               ELSE IF ~iterator.ok THEN iterator
               ELSE IF ~rp.ok THEN rp
               ELSE IF ~body.ok THEN body
               ELSE POk(body.p,
                        Block(<<initializer.x,
                                WhileLoop(condition.x, Block(<<body.x, ExprStmt(iterator.x)>>))>>))
      [] rule = "if_statement" ->
           LET lp == Parser_consume(p, "LeftParen", "Expected opening parenthesis")
               condition == Parser_rule("expression", lp.p, Nil)
               rp == Parser_consume(condition.p, "RightParen", "Expected closing parenthesis")
               body == Parser_rule("statement", rp.p, Nil)
               el == Parser_match_tokens(body.p, {"Else"})
               else_branch == Parser_rule("statement", el.p, Nil)
           IN  IF ~lp.ok THEN lp
               ELSE IF ~condition.ok THEN condition
               ELSE IF ~rp.ok THEN rp
               ELSE IF ~body.ok THEN body
               ELSE IF ~el.matched THEN POk(body.p, IfElse(condition.x, body.x, None))
               ELSE IF ~else_branch.ok THEN else_branch
               ELSE POk(else_branch.p, IfElse(condition.x, body.x, Some(else_branch.x)))
      [] rule = "return_statement" ->
           LET value == IF Parser_check(p, "Semicolon")
                        THEN Expr_new(p, Literal(LoxValue_from(Token_new("Nil", "nil", None))))
                        ELSE Parser_rule("expression", p, Nil)
               semi == Parser_consume(value.p, "Semicolon", "Expected a semicolon")
           IN  IF ~value.ok THEN value
               ELSE IF ~semi.ok THEN semi
               ELSE POk(semi.p, Return(value.x))
      [] rule = "while_statement" ->
           LET lp == Parser_consume(p, "LeftParen", "Expected opening parenthesis")
               condition == Parser_rule("expression", lp.p, Nil)
               rp == Parser_consume(condition.p, "RightParen", "Expected closing parenthesis")
               body == Parser_rule("statement", rp.p, Nil)
           IN  IF ~lp.ok THEN lp
               ELSE IF ~condition.ok THEN condition
               ELSE IF ~rp.ok THEN rp
               ELSE IF ~body.ok THEN body
               ELSE POk(body.p, WhileLoop(condition.x, body.x))
      [] rule = "block" ->
           LET d == Parser_rule("declaration", p, Nil)
               rb == Parser_consume(p, "RightBrace", "Expected closing brace")
           IN  IF ~Parser_check(p, "RightBrace") /\ ~Parser_is_at_end(p)
               THEN IF ~d.ok THEN d ELSE Parser_rule("block", d.p, Append(x, d.x))
               ELSE IF ~rb.ok THEN rb
               ELSE POk(rb.p, Block(x))
      [] rule = "expression" -> Parser_rule("assignemnt", p, Nil)
      [] rule = "assignemnt" ->
           LET left == Parser_rule("logic_or", p, Nil)
               eq == Parser_match_tokens(left.p, {"Equal"})
               right == Parser_rule("assignemnt", eq.p, Nil)
           IN  IF ~left.ok THEN left
               ELSE IF ~eq.matched THEN left
               ELSE IF left.x.kind # "Identifier"
                    THEN PErr(eq.p, Runtime("Invalid assignment target"))
               ELSE IF ~right.ok THEN right
               ELSE Expr_new(right.p, Assignment(left.x.name, right.x))
      [] rule \in DOMAIN BinaryLevels ->
           LET left == Parser_rule(BinaryLevels[rule].next, p, Nil)
           IN  IF ~left.ok THEN left
               ELSE Parser_rule("binary_loop", left.p, [level |-> rule, left |-> left.x])
      [] rule = "binary_loop" ->
           LET level == BinaryLevels[x.level]
               m == Parser_match_tokens(p, level.kinds)
               operator == Parser_previous(m.p).kind
               right == Parser_rule(level.next, m.p, Nil)
               left == Expr_new(right.p, IF level.node = "Logical"
                                         THEN Logical(operator, x.left, right.x)
                                         ELSE Binary(operator, x.left, right.x))
           IN  IF ~m.matched THEN POk(p, x.left)
               ELSE IF ~right.ok THEN right
               ELSE Parser_rule("binary_loop", left.p, [x EXCEPT !.left = left.x])
      [] rule = "unary" ->
           LET m == Parser_match_tokens(p, {"Bang", "Minus"})
               right == Parser_rule("unary", m.p, Nil)
           IN  IF ~m.matched THEN Parser_rule("call", p, Nil)
               ELSE IF ~right.ok THEN right
               ELSE Expr_new(right.p, Unary(Parser_previous(m.p).kind, right.x))
      [] rule = "call" ->
           LET left == Parser_rule("primary", p, Nil)
           IN  IF ~left.ok THEN left ELSE Parser_rule("call_loop", left.p, left.x)
      [] rule = "call_loop" ->
           LET lp == Parser_match_tokens(p, {"LeftParen"})
               rp == Parser_match_tokens(lp.p, {"RightParen"})
               arguments == Parser_rule("arguments_loop", rp.p,
                                        [arguments |-> <<>>, continue |-> TRUE,
                                         passes |-> MAX_ARGUMENTS + 1])
               close == Parser_consume(arguments.p, "RightParen", "Expected closing parenthesis")
               left == IF rp.matched THEN Expr_new(rp.p, Call(x, <<>>))
                       ELSE Expr_new(close.p, Call(x, arguments.x.arguments))
           IN  IF ~lp.matched THEN POk(p, x)
               ELSE IF ~rp.matched /\ ~arguments.ok THEN arguments
               ELSE IF ~rp.matched /\ ~close.ok THEN close
               ELSE Parser_rule("call_loop", left.p, left.x)
      \* the `loop` of call(): a pass pushes one argument, then fails, breaks
      \* or continues.  The pass that pushes argument MAX_ARGUMENTS + 1 fails, so
      \* the loop ends within that many passes; x.passes of them are run here,
      \* the first half and then the rest
      [] rule = "arguments_loop" ->
           IF x.passes = 1
           THEN LET expr == Parser_rule("expression", p, Nil)
                    arguments == Append(x.arguments, expr.x)
                    comma == Parser_match_tokens(expr.p, {"Comma"})
                IN  IF ~expr.ok THEN expr
                    ELSE IF Len(arguments) > MAX_ARGUMENTS
                         THEN PErr(expr.p, Runtime("Exceeded maximum number of arguments"))
                    ELSE POk(comma.p, [x EXCEPT !.arguments = arguments, !.continue = comma.matched])
           ELSE LET half == x.passes \div 2
                    first == Parser_rule("arguments_loop", p, [x EXCEPT !.passes = half])
                IN  IF ~first.ok \/ ~first.x.continue THEN first
                    ELSE Parser_rule("arguments_loop", first.p,
                                     [first.x EXCEPT !.passes = x.passes - half])
      [] rule = "primary" ->
           LET lit == Parser_match_tokens(p, {"Number", "String", "True", "False", "Nil"})
               ident == Parser_match_tokens(p, {"Identifier"})
               lp == Parser_match_tokens(p, {"LeftParen"})
               expr == Parser_rule("expression", lp.p, Nil)
               rp == Parser_consume(expr.p, "RightParen", "Expected closing ')'")
           IN  IF lit.matched THEN Expr_new(lit.p, Literal(LoxValue_from(Parser_previous(lit.p))))
               ELSE IF ident.matched THEN Expr_new(ident.p, Identifier(Parser_previous(ident.p).lexeme))
               ELSE IF ~lp.matched THEN PErr(p, Parser_syntax_error(p, "Expected expression"))
               ELSE IF ~expr.ok THEN expr
               ELSE IF ~rp.ok THEN rp
               ELSE Expr_new(rp.p, Grouping(expr.x))

\* Parser::parse: declarations are parsed until the tokens run out; an error
\* is collected and the parser skips to the next statement.  syncs is
\* history: for each error the cursor when it was raised (from) and the
\* cursor synchronize() left (to)
RECURSIVE Parser_parse_loop(_, _, _, _)
Parser_parse_loop(parser, statements, errors, syncs) ==
    IF Parser_is_at_end(parser)
    THEN [statements |-> statements, errors |-> errors, syncs |-> syncs]
    ELSE LET eof == Parser_match_tokens(parser, {"Eof"})
             d == Parser_rule("declaration", parser, Nil)
             resumed == Parser_synchronize(d.p)
         IN  IF eof.matched THEN Parser_parse_loop(eof.p, statements, errors, syncs)
             ELSE IF d.ok THEN Parser_parse_loop(d.p, Append(statements, d.x), errors, syncs)
             ELSE Parser_parse_loop(resumed, statements, Append(errors, d.err),
                      Append(syncs, [start |-> parser.current, from |-> d.p.current,
                                     to |-> resumed.current]))

Parser_parse(tokens) == Parser_parse_loop(Parser_new(tokens), <<>>, <<>>, <<>>)

(***************************************************************************)
(* Resolver (resolver.rs).  The resolver state is the record               *)
(* [locals_stack, locals, functions_stack, current_class] extended with    *)
(* the result so far: ok, and err when ~ok.                                *)
(***************************************************************************)
Resolver_new ==
    [locals_stack |-> <<>>, locals |-> EmptyMap, functions_stack |-> <<>>,
     current_class |-> "None", ok |-> TRUE, err |-> NoError]

Resolver_fail(r, error) == [r EXCEPT !.ok = FALSE, !.err = error]

Resolver_push(r) == [r EXCEPT !.locals_stack = Append(@, EmptyMap)]

Resolver_pop(r) ==
    [r EXCEPT !.locals_stack = IF @ = <<>> THEN @ ELSE SubSeq(@, 1, Len(@) - 1)]

Resolver_declare(r, name) ==
    IF r.locals_stack # <<>>
    THEN [r EXCEPT !.locals_stack[Len(r.locals_stack)] = Insert(@, name, FALSE)]
    ELSE r

Resolver_define(r, name) ==
    IF r.locals_stack # <<>>
    THEN [r EXCEPT !.locals_stack[Len(r.locals_stack)] = Insert(@, name, TRUE)]
    ELSE r

Resolver_peek(r) == r.locals_stack[Len(r.locals_stack)]

Resolver_has_name(r, name) ==
    IF r.locals_stack = <<>> THEN FALSE ELSE ContainsKey(Resolver_peek(r), name)

Resolver_is_initialized(r, name) ==
    LET flag == MapGet(Resolver_peek(r), name) IN IF flag.some THEN flag.v ELSE TRUE

Resolver_resolve(r, expr, depth) == [r EXCEPT !.locals = Insert(@, expr.id, depth)]

\* resolve_local without rev(): the depth counted from the outermost frame
Resolver_resolve_local_outermost_first(r, expr, name) ==
    LET n == Len(r.locals_stack)
        hits == {i \in 0..(n - 1) : ContainsKey(r.locals_stack[i + 1], name)}
    IN  IF hits = {} THEN r
        ELSE Resolver_resolve(r, expr, CHOOSE i \in hits : \A j \in hits : i <= j)

\* the frames are searched from the innermost (last) one outwards; i counts
\* the frames passed, so frame number Len - i holds the name
Resolver_resolve_local(r, expr, name) ==
    LET n == Len(r.locals_stack)
        hits == {i \in 0..(n - 1) : ContainsKey(r.locals_stack[n - i], name)}
    IN  IF hits = {} THEN r
        ELSE Resolver_resolve(r, expr, CHOOSE i \in hits : \A j \in hits : i <= j)

RECURSIVE Resolver_bind_expr(_, _), Resolver_bind_exprs(_, _)
Resolver_bind_expr(r, expr) ==
    IF ~r.ok THEN r
    ELSE CASE expr.kind = "Identifier" ->
                IF r.locals_stack # <<>> /\ ~Resolver_is_initialized(r, expr.name)
                THEN Resolver_fail(r,
                        Resolution("Attempted to resolve variable in its own initializer"))
                ELSE Resolver_resolve_local(r, expr, expr.name)
           [] expr.kind = "Assignment" ->
                LET r1 == Resolver_bind_expr(r, expr.value)
                IN  IF ~r1.ok THEN r1 ELSE Resolver_resolve_local(r1, expr, expr.name)
           [] expr.kind \in {"Binary", "Logical"} ->
                Resolver_bind_expr(Resolver_bind_expr(r, expr.left), expr.right)
           [] expr.kind = "Call" ->
                Resolver_bind_exprs(Resolver_bind_expr(r, expr.callee), expr.arguments)
           [] expr.kind = "Grouping" -> Resolver_bind_expr(r, expr.inner)
           [] expr.kind = "Unary" -> Resolver_bind_expr(r, expr.right)
           [] expr.kind = "This" ->
                IF r.current_class = "None"
                THEN Resolver_fail(r, Resolution("Cannot use this outside of a class"))
                ELSE r
           [] expr.kind = "Super" ->
                IF r.current_class = "None"
                THEN Resolver_fail(r, Resolution("Cannot use super outside of a class"))
                ELSE r
           [] OTHER -> r
Resolver_bind_exprs(r, exprs) ==
    IF ~r.ok \/ exprs = <<>> THEN r
    ELSE Resolver_bind_exprs(Resolver_bind_expr(r, Head(exprs)), Tail(exprs))

RECURSIVE Resolver_define_all(_, _)
Resolver_define_all(r, names) ==
    IF names = <<>> THEN r
    ELSE Resolver_define_all(Resolver_define(r, Head(names)), Tail(names))

RECURSIVE Resolver_bind_stmt(_, _), Resolver_bind_stmts(_, _),
          Resolver_resolve_function(_, _, _, _, _), Resolver_bind_methods(_, _)
Resolver_resolve_function(r, name, params, body, func_type) ==
    LET r1 == Resolver_define(r, name)
        r2 == [r1 EXCEPT !.functions_stack = Append(@, func_type)]
        r3 == Resolver_push(r2)
        r4 == IF func_type = "Method" THEN Resolver_define(r3, "this") ELSE r3
        r5 == Resolver_define_all(r4, params)
        r6 == Resolver_bind_stmts(r5, body)
    IN  IF ~r6.ok THEN r6
        ELSE [Resolver_pop(r6) EXCEPT
                 !.functions_stack = SubSeq(@, 1, Len(@) - 1)]
Resolver_bind_methods(r, methods) ==
    IF ~r.ok \/ methods = <<>> THEN r
    ELSE LET m == Head(methods)
         IN  Resolver_bind_methods(
                 Resolver_resolve_function(r, m.name, m.params, m.body,
                     IF m.name = "init" THEN "Constructor" ELSE "Method"),
                 Tail(methods))
Resolver_bind_stmt(r, stmt) ==
    IF ~r.ok THEN r
    ELSE CASE stmt.kind = "Block" ->
                LET r1 == Resolver_bind_stmts(Resolver_push(r), stmt.statements)
                IN  IF ~r1.ok THEN r1 ELSE Resolver_pop(r1)
           [] stmt.kind = "Var" ->
                IF Resolver_has_name(r, stmt.name)
                THEN Resolver_fail(r, Runtime("Cannot redeclare variable in the same scope"))
                ELSE LET r1 == Resolver_declare(r, stmt.name)
                         r2 == IF stmt.initializer.some
                               THEN Resolver_bind_expr(r1, stmt.initializer.v)
                               ELSE r1
                     IN  IF ~r2.ok THEN r2 ELSE Resolver_define(r2, stmt.name)
           [] stmt.kind = "Fun" ->
                Resolver_resolve_function(r, stmt.name, stmt.params, stmt.body, "Function")
           [] stmt.kind = "Expr" -> Resolver_bind_expr(r, stmt.expr)
           [] stmt.kind = "IfElse" ->
                LET r1 == Resolver_bind_stmt(r, stmt.body)
                IN  IF r1.ok /\ stmt.else_branch.some
                    THEN Resolver_bind_stmt(r1, stmt.else_branch.v)
                    ELSE r1
           [] stmt.kind = "Print" -> Resolver_bind_expr(r, stmt.expr)
           [] stmt.kind = "Return" ->
                IF r.functions_stack = <<>>
                THEN Resolver_fail(r, Runtime("Cannot return from global scope"))
                ELSE IF r.functions_stack[Len(r.functions_stack)] = "Constructor"
                THEN Resolver_fail(r, Resolution("Cannot return from constructor"))
                ELSE Resolver_bind_expr(r, stmt.expr)
           [] stmt.kind = "WhileLoop" ->
                LET r1 == Resolver_bind_expr(Resolver_push(r), stmt.condition)
                    r2 == Resolver_bind_stmt(r1, stmt.body)
                IN  IF ~r2.ok THEN r2 ELSE Resolver_pop(r2)
           [] stmt.kind = "Class" ->
                LET r1 == Resolver_declare([r EXCEPT !.current_class = "Class"], stmt.name)
                    r2 == IF stmt.superclass.some
                          THEN IF stmt.superclass.v.name = stmt.name
                               THEN Resolver_fail(r1,
                                        Resolution("Class cannot inherit from itself"))
                               ELSE Resolver_bind_expr(r1, stmt.superclass.v)
                          ELSE r1
                    r3 == Resolver_bind_methods(r2, stmt.methods)
                IN  IF ~r3.ok THEN r3
                    ELSE [Resolver_define(r3, stmt.name) EXCEPT !.current_class = "None"]
Resolver_bind_stmts(r, stmts) ==
    IF ~r.ok \/ stmts = <<>> THEN r
    ELSE Resolver_bind_stmts(Resolver_bind_stmt(r, Head(stmts)), Tail(stmts))

\* Resolver::bind: Ok(locals) or the first error
Resolver_bind(statements) == Resolver_bind_stmts(Resolver_new, statements)

(***************************************************************************)
(* Environment (environment.rs): the scope arena.  A ScopeHandle h is the  *)
(* 0-based index into scopes, so scope h is scopes[h + 1].  Handles are    *)
(* only ever produced by new_scope, so the "ScopeId out of range"          *)
(* assertion of get_scope cannot fire and is not modelled.                 *)
(***************************************************************************)
GLOBAL_SCOPE == 0

\* LoxFunction::native
LoxFunction_native(name, params) ==
    [t |-> "Function", name |-> name, params |-> params,
     body |-> [kind |-> "Native", func |-> name],
     this_value |-> None, super_value |-> None, is_constructor |-> FALSE]

\* get_builtins: the names registered at startup.  body.func identifies the
\* native closure; the push and pop natives are both named "get".
Builtins ==
    [k \in {"time", "get_args", "Array"} |->
        IF k = "Array"
        THEN [t |-> "Class", name |-> "Array", superclass |-> None,
              methods |-> [m \in {"init", "len", "get", "set", "push", "pop"} |->
                  [LoxFunction_native(IF m \in {"push", "pop"} THEN "get" ELSE m,
                      CASE m = "get" -> <<"index">>
                        [] m = "set" -> <<"index", "value">>
                        [] m = "push" -> <<"value">>
                        [] OTHER -> <<>>)
                   EXCEPT !.body.func = m]]]
        ELSE LoxFunction_native(k, <<>>)]

Environment_new ==
    [scopes |-> << Some([vars |-> EmptyMap, parent |-> None, children |-> <<>>]) >>]

Environment_get_scope(env, handle) == env.scopes[handle + 1]

Environment_get_builtin(key) == MapGet(Builtins, key)

\* get_empty that takes the first occupied slot for a free one
Environment_get_empty_occupied(env) ==
    LET used == {i \in 1..Len(env.scopes) : env.scopes[i].some}
    IN  IF used # {}
        THEN [env |-> env, id |-> (CHOOSE i \in used : \A j \in used : i <= j) - 1]
        ELSE [env |-> [env EXCEPT !.scopes = Append(@, None)], id |-> Len(env.scopes)]

\* the first free slot, or a fresh slot pushed at the end
Environment_get_empty(env) ==
    LET free == {i \in 1..Len(env.scopes) : ~env.scopes[i].some}
    IN  IF free # {}
        THEN [env |-> env, id |-> (CHOOSE i \in free : \A j \in free : i <= j) - 1]
        ELSE [env |-> [env EXCEPT !.scopes = Append(@, None)], id |-> Len(env.scopes)]

\* new_scope: [ok, env, id].  In `if let Some(id) = parent` the inner id
\* shadows the new handle, so the handle pushed on the parent's child list
\* is the parent's own; ~ok is the expect("Invalid scope") panic.
Environment_new_scope(env, parent) ==
    LET g == Environment_get_empty(env)
        scope == [vars |-> EmptyMap, parent |-> parent, children |-> <<>>]
        e1 == [g.env EXCEPT !.scopes[g.id + 1] = Some(scope)]
    IN  IF ~parent.some THEN [ok |-> TRUE, env |-> e1, id |-> g.id]
        ELSE IF ~Environment_get_scope(e1, parent.v).some
        THEN [ok |-> FALSE, env |-> e1, id |-> g.id]
        ELSE [ok |-> TRUE,
              env |-> [e1 EXCEPT !.scopes[parent.v + 1].v.children = Append(@, parent.v)],
              id |-> g.id]

Environment_parent_scope(env, handle) ==
    LET scope == Environment_get_scope(env, handle)
    IN  IF scope.some THEN scope.v.parent ELSE None

RECURSIVE Environment_ancestor_scope(_, _, _)
Environment_ancestor_scope(env, handle, distance) ==
    IF distance > 0
    THEN LET parent == Environment_parent_scope(env, handle)
         IN  IF ~parent.some THEN None
             ELSE Environment_ancestor_scope(env, parent.v, distance - 1)
    ELSE Some(handle)

\* get does not walk parents; the builtins are the fallback for any scope
Environment_get(env, handle, key) ==
    LET scope == Environment_get_scope(env, IF handle.some THEN handle.v ELSE GLOBAL_SCOPE)
    IN  IF ~scope.some THEN None
        ELSE IF ContainsKey(scope.v.vars, key) THEN Some(scope.v.vars[key])
        ELSE Environment_get_builtin(key)

Environment_declare(env, handle, key, value) ==
    LET h == IF handle.some THEN handle.v ELSE GLOBAL_SCOPE
    IN  IF Environment_get_scope(env, h).some
        THEN [env EXCEPT !.scopes[h + 1].v.vars = Insert(@, key, value)]
        ELSE env

\* assign: [ok, env]; ~ok is the expect("Invalid scope") or the
\* assert!("Cannot assign variable before declaration") panic
Environment_assign(env, handle, key, value) ==
    LET h == IF handle.some THEN handle.v ELSE GLOBAL_SCOPE
        scope == Environment_get_scope(env, h)
    IN  IF ~scope.some \/ ~ContainsKey(scope.v.vars, key)
        THEN [ok |-> FALSE, env |-> env]
        ELSE [ok |-> TRUE, env |-> [env EXCEPT !.scopes[h + 1].v.vars = Insert(@, key, value)]]

(***************************************************************************)
(* LoxState (state.rs): env, locals and the stack of return slots.         *)
(* objects holds the Rc<RefCell<LoxObject>> cells and out the lines the    *)
(* Print statement writes to the log.  The remaining fields are history    *)
(* of the run, read by the properties only and never by the interpreter:   *)
(* trace (the events below, in order), acts (the activation number of      *)
(* each return slot on the stack) and calls (function bodies entered).     *)
(*   stmt     a statement starts to be evaluated, in activation act        *)
(*   return   a Return statement wrote v into the top slot                 *)
(*   call     LoxFunction::call is entered                                 *)
(*   arity    LoxFunction::call returns its arity error                    *)
(*   arg      an argument expression starts to be evaluated                *)
(*   declare  Environment::declare is called                               *)
(*   enter    a return slot is pushed and the body of the function name    *)
(*            entered, with this_value and is_constructor as given         *)
(*   exit     the slot is popped; v is the call's value                    *)
(*   lookup   an Identifier, Assignment, This or Super selects its scope   *)
(*   eq       == or != is applied to left and right; v is its value, None  *)
(*            when the comparison overflows the stack                      *)
(*   unary    a Unary expression is evaluated: operand is the value of its *)
(*            operand if that was evaluated, v the result if there is one  *)
(* hasher is the iteration order of the process's HashMaps (HashOrders).   *)
(***************************************************************************)
HostClock == 1

LoxState_new(locals) ==
    [env |-> Environment_new, locals |-> locals, stack |-> <<>>,
     objects |-> <<>>, out |-> <<>>, trace |-> <<>>, acts |-> <<>>, calls |-> 0,
     hasher |-> "mismatch_first"]

Ok(st, v) == [ok |-> TRUE, st |-> st, v |-> v, err |-> NoError]
Err(st, error) == [ok |-> FALSE, st |-> st, v |-> Nil, err |-> error]

Log(st, event) == [st EXCEPT !.trace = Append(@, event)]
CurrentActivation(st) == IF st.acts = <<>> THEN 0 ELSE st.acts[Len(st.acts)]

Declare(st, handle, key, value) ==
    Log([st EXCEPT !.env = Environment_declare(st.env, handle, key, value)],
        [ev |-> "declare", scope |-> handle, key |-> key])

\* the lookup event of expression expr evaluated in scope: target is the
\* scope selected (None when the ancestor does not exist), found whether
\* that scope's variable map holds key
LookupEvent(st, scope, expr, key, target) ==
    [ev |-> "lookup", kind |-> expr.kind, id |-> expr.id, name |-> key,
     depth |-> MapGet(st.locals, expr.id), from |-> scope, target |-> target,
     found |-> /\ target.some
               /\ Environment_get_scope(st.env, target.v).some
               /\ ContainsKey(Environment_get_scope(st.env, target.v).v.vars, key)]

\* resolve_local that ignores the resolver's table and walks the scope chain
\* outwards to the nearest scope declaring key
RECURSIVE NearestScopeDeclaring(_, _, _)
NearestScopeDeclaring(env, handle, key) ==
    LET scope == Environment_get_scope(env, handle)
    IN  IF ~scope.some THEN None
        ELSE IF ContainsKey(scope.v.vars, key) \/ ~scope.v.parent.some THEN Some(handle)
        ELSE NearestScopeDeclaring(env, scope.v.parent.v, key)
LoxState_resolve_local_dynamic(st, scope, expr, key) ==
    LET target == NearestScopeDeclaring(st.env, scope, key)
        st1 == Log(st, LookupEvent(st, scope, expr, key, target))
        value == Environment_get(st.env, target, key)
    IN  IF ~target.some THEN Err(st1, Runtime("Invalid scope"))
        ELSE IF ~value.some THEN Err(st1, Runtime("Undefined variable"))
        ELSE Ok(st1, value.v)

\* LoxState::resolve_local
LoxState_resolve_local(st, scope, expr, key) ==
    LET depth == MapGet(st.locals, expr.id)
        target == IF depth.some
                  THEN Environment_ancestor_scope(st.env, scope, depth.v)
                  ELSE Some(GLOBAL_SCOPE)
        st1 == Log(st, LookupEvent(st, scope, expr, key, target))
        value == Environment_get(st.env, target, key)
    IN  IF ~target.some THEN Err(st1, Runtime("Invalid scope"))
        ELSE IF ~value.some THEN Err(st1, Runtime("Undefined variable"))
        ELSE Ok(st1, value.v)

\* from_stmt that drops the closure handle it is given
LoxFunction_from_stmt_global(stmt, scope) ==
    [t |-> "Function", name |-> stmt.name, params |-> stmt.params,
     body |-> [kind |-> "Block", statements |-> stmt.body, closure |-> GLOBAL_SCOPE],
     this_value |-> None, super_value |-> None, is_constructor |-> FALSE]

\* LoxFunction::from_stmt
LoxFunction_from_stmt(stmt, scope) ==
    [t |-> "Function", name |-> stmt.name, params |-> stmt.params,
     body |-> [kind |-> "Block", statements |-> stmt.body, closure |-> scope],
     this_value |-> None, super_value |-> None, is_constructor |-> FALSE]

\* ToString for LoxValue
to_string(st, value) ==
    CASE value.t = "Nil" -> "nil"
      [] value.t = "Boolean" -> IF value.b THEN "true" ELSE "false"
      [] value.t = "Number" -> ToString(value.n)
      [] value.t = "String" -> value.s
      [] value.t = "Function" -> "<function " \o value.name \o ">"
      [] value.t = "Class" -> "<class " \o value.name \o ">"
      [] value.t = "Object" -> "<instance " \o st.objects[value.ref].class.name \o ">"

\* #[derive(PartialEq)] on LoxValue, LoxFunction, LoxClass and LoxObject.
\* Rc<RefCell<T>> compares the contents, not the pointers (none of the types
\* is Eq), so the comparison of two Objects descends into class and props,
\* from a bound method into its this_value, and from there into the object
\* again.  path holds the pairs of objects whose comparison is under way:
\* meeting one of them again is a recursion that never ends, the stack
\* overflows.  The result is the set of outcomes the comparison can have,
\* "eq", "ne" or "overflow": a HashMap is compared entry by entry in its
\* iteration order and stops at the first unequal entry, so both a mismatch
\* and an overflow can be what it meets first.
RECURSIVE LoxValue_eq(_, _, _, _)
LoxValue_eq(st, a, b, path) ==
    LET Same(cond) == IF cond THEN {"eq"} ELSE {"ne"}
        \* `x == y && rest`
        AndThen(first, rest) == (first \ {"eq"}) \cup (IF "eq" \in first THEN rest ELSE {})
        OptionEq(x, y, p) ==
            IF x.some # y.some THEN {"ne"}
            ELSE IF ~x.some THEN {"eq"}
            ELSE LoxValue_eq(st, x.v, y.v, p)
        MapEq(m1, m2, p) ==
            IF Cardinality(DOMAIN m1) # Cardinality(DOMAIN m2) THEN {"ne"}
            ELSE LET each == UNION {IF k \in DOMAIN m2
                                    THEN LoxValue_eq(st, m1[k], m2[k], p)
                                    ELSE {"ne"} : k \in DOMAIN m1}
                 IN  IF each \subseteq {"eq"} THEN {"eq"} ELSE each \ {"eq"}
    IN  IF a.t # b.t THEN {"ne"}
        ELSE CASE a.t = "Nil" -> {"eq"}
               [] a.t = "Boolean" -> Same(a.b = b.b)
               [] a.t = "Number" -> Same(a.n = b.n)
               [] a.t = "String" -> Same(a.s = b.s)
               [] a.t = "Class" -> Same(a = b)
               [] a.t = "Function" ->
                    AndThen(Same(a.name = b.name /\ a.params = b.params /\ a.body = b.body),
                        AndThen(OptionEq(a.this_value, b.this_value, path),
                            AndThen(OptionEq(a.super_value, b.super_value, path),
                                    Same(a.is_constructor = b.is_constructor))))
               [] a.t = "Super" -> MapEq(a.props, b.props, path)
               [] a.t = "Object" ->
                    IF <<a.ref, b.ref>> \in path THEN {"overflow"}
                    ELSE LET x == st.objects[a.ref]
                             y == st.objects[b.ref]
                         IN  AndThen(Same(x.class = y.class),
                                     MapEq(x.props, y.props, path \cup {<<a.ref, b.ref>>}))

\* the iteration orders a HashMap can have, as far as a comparison shows
\* them: an unequal entry is met before an entry that leads back into the
\* comparison under way, or after it
HashOrders == {"mismatch_first", "cycle_first"}

\* left_value == right_value as the process computes it: "eq", "ne" or
\* "overflow"
Equality(st, left_value, right_value) ==
    LET outcomes == LoxValue_eq(st, left_value, right_value, {})
    IN  IF Cardinality(outcomes) = 1 THEN CHOOSE o \in outcomes : TRUE
        ELSE IF st.hasher = "mismatch_first" THEN "ne" ELSE "overflow"

\* `left_value == right_value` and `left_value != right_value` (ne is !eq)
Equality_eval(st, operator, left_value, right_value) ==
    LET outcome == Equality(st, left_value, right_value)
        value == IF outcome = "overflow" THEN None
                 ELSE Some(Boolean((operator = "EqualEqual") = (outcome = "eq")))
        st1 == Log(st, [ev |-> "eq", operator |-> operator, left |-> left_value,
                        right |-> right_value, v |-> value])
    IN  IF value.some THEN Ok(st1, value.v) ELSE Err(st1, StackOverflow)

\* the operator match of a Binary expression, on the two operand values
Binary_eval(st, operator, left_value, right_value) ==
    LET numbers == left_value.t = "Number" /\ right_value.t = "Number"
    IN  CASE operator = "Plus" ->
               IF left_value.t = "String" \/ right_value.t = "String"
               THEN Ok(st, String(to_string(st, left_value) \o to_string(st, right_value)))
               ELSE IF numbers THEN Ok(st, Number(left_value.n + right_value.n))
               ELSE Err(st, Runtime("Invalid operands"))
          [] operator = "Minus" ->
               IF numbers THEN Ok(st, Number(left_value.n - right_value.n))
               ELSE Err(st, Runtime("Expected Number"))
          [] operator = "Star" ->
               IF numbers THEN Ok(st, Number(left_value.n * right_value.n))
               ELSE Err(st, Runtime("Expected Number"))
          [] operator = "Greater" ->
               IF numbers THEN Ok(st, Boolean(left_value.n > right_value.n))
               ELSE Err(st, Runtime("Invalid operands"))
          [] operator = "GreaterEqual" ->
               IF numbers THEN Ok(st, Boolean(left_value.n >= right_value.n))
               ELSE Err(st, Runtime("Invalid operands"))
          [] operator = "Less" ->
               IF numbers THEN Ok(st, Boolean(left_value.n < right_value.n))
               ELSE Err(st, Runtime("Invalid operands"))
          [] operator = "LessEqual" ->
               IF numbers THEN Ok(st, Boolean(left_value.n <= right_value.n))
               ELSE Err(st, Runtime("Invalid operands"))
          [] operator \in {"EqualEqual", "BangEqual"} ->
               Equality_eval(st, operator, left_value, right_value)
          [] operator \notin {"Plus", "Minus", "Star", "Slash", "Greater", "GreaterEqual",
                              "Less", "LessEqual", "EqualEqual", "BangEqual"} ->
               Err(st, Runtime("Unknown binary operator"))

\* the superclass chain of class, the class itself first
RECURSIVE ClassChain(_)
ClassChain(class) ==
    <<class>> \o (IF class.superclass.some THEN ClassChain(class.superclass.v) ELSE <<>>)

Reverse(seq) == [i \in 1..Len(seq) |-> seq[Len(seq) + 1 - i]]

\* one iteration of the method-binding loop of LoxObject::instantiate: the
\* methods of class bound to this_value and to the super table of the
\* previous iteration
BoundMethods(class, this_value, super_value) ==
    [name \in DOMAIN class.methods |->
        [class.methods[name] EXCEPT !.this_value = Some(this_value),
                                    !.super_value = super_value]]

\* super_methods starts empty in every iteration, so the table handed to
\* the next class holds the methods of this class only
SuperMethods(class, this_value, super_value) ==
    BoundMethods(class, this_value, super_value)

Overlay(props, methods) ==
    [k \in (DOMAIN props) \cup (DOMAIN methods) |->
        IF k \in DOMAIN methods THEN methods[k] ELSE props[k]]

\* the loop over the reversed chain: the property map it leaves in the object
RECURSIVE BindChain(_, _, _, _)
BindChain(classes, this_value, super_value, props) ==
    IF classes = <<>> THEN props
    ELSE LET class == Head(classes)
         IN  BindChain(Tail(classes), this_value,
                 Some(SuperTable(SuperMethods(class, this_value, super_value))),
                 Overlay(props, BoundMethods(class, this_value, super_value)))

(***************************************************************************)
(* The evaluator: Expr::eval (expr.rs), Stmt::eval (stmt.rs),              *)
(* LoxFunction::call (function.rs), LoxObject::instantiate (object.rs).    *)
(***************************************************************************)
\* The functions of the evaluator call one another; every such call,
\* call_F(...) for the function F, is routed through Eval, which applies F
\* to the arguments.
RECURSIVE Eval(_, _)

call_Expr_eval(st, expr, scope) ==
    Eval("Expr_eval", <<st, expr, scope>>)
call_Expr_eval_args(st, arguments, scope, args) ==
    Eval("Expr_eval_args", <<st, arguments, scope, args>>)
call_Stmt_eval(st, stmt, scope) ==
    Eval("Stmt_eval", <<st, stmt, scope>>)
call_Stmt_eval_block(st, statements, block_scope) ==
    Eval("Stmt_eval_block", <<st, statements, block_scope>>)
call_Stmt_eval_while(st, stmt, while_scope) ==
    Eval("Stmt_eval_while", <<st, stmt, while_scope>>)
call_LoxFunction_call(st, func, scope, arguments) ==
    Eval("LoxFunction_call", <<st, func, scope, arguments>>)
call_LoxFunction_call_checked(st, func, scope, arguments) ==
    Eval("LoxFunction_call_checked", <<st, func, scope, arguments>>)
call_LoxFunction_run_body(st, statements, closure) ==
    Eval("LoxFunction_run_body", <<st, statements, closure>>)
call_LoxObject_instantiate(st, class, scope, arguments) ==
    Eval("LoxObject_instantiate", <<st, class, scope, arguments>>)

\* LoxValue::Vec: the vector an Array instance keeps in its __vec__ property
Vec(items) == [t |-> "Vec", items |-> items]

\* `as usize` of a number that is one element too far
as_usize_off_by_one(n) == IF n < 0 THEN 1 ELSE n + 1
\* `args[0].get_number(meta.line)? as usize`: a saturating cast
as_usize(n) == IF n < 0 THEN 0 ELSE n

\* the bodies of the Array natives once `this` and its __vec__ are at hand:
\* the vector afterwards and the value returned, an error, or the panic of
\* indexing a Rust Vec out of bounds
Array_method(method, items, args) ==
    LET Returns(new_items, v) ==
            [ok |-> TRUE, items |-> new_items, v |-> v, err |-> NoError]
        Fails(error) == [ok |-> FALSE, items |-> items, v |-> Nil, err |-> error]
        index == as_usize(args[1].n)
    IN  CASE method = "len" -> Returns(items, Number(Len(items)))
          [] method = "get" ->
               IF args = <<>> THEN Fails(Runtime("Expected 1 argument"))
               ELSE IF args[1].t # "Number" THEN Fails(Runtime("Expected Number"))
               ELSE IF index > Len(items) THEN Fails(Runtime("Index out of range"))
               ELSE IF index >= Len(items) THEN Fails(Panic("index out of bounds"))
               ELSE Returns(items, items[index + 1])
          [] method = "set" ->
               IF Len(args) < 2 THEN Fails(Runtime("Expected 2 arguments"))
               ELSE IF args[1].t # "Number" THEN Fails(Runtime("Expected Number"))
               ELSE IF index > Len(items) THEN Fails(Runtime("Index out of range"))
               ELSE IF index >= Len(items) THEN Fails(Panic("index out of bounds"))
               ELSE Returns([items EXCEPT ![index + 1] = args[2]], Nil)
          [] method = "push" ->
               IF args = <<>> THEN Fails(Runtime("Expected 1 argument"))
               ELSE Returns(Append(items, args[1]), Nil)
          [] method = "pop" ->
               IF items = <<>> THEN Returns(items, Nil)
               ELSE Returns(SubSeq(items, 1, Len(items) - 1), items[Len(items)])

\* the native bodies (builtins.rs): time, and the Array natives, which reach
\* the vector through meta.this_value
Native_call(st, func, args) ==
    LET method == func.body.func
        this == func.this_value
        props == st.objects[this.v.ref].props
        vec == MapGet(props, "__vec__")
        r == Array_method(method, vec.v.items, args)
        Done(st1, v) ==
            Ok(Log(st1, [ev |-> "native", method |-> method, this |-> this.v.ref,
                         args |-> args, v |-> v, ok |-> TRUE]), v)
    IN  IF method = "time" THEN Ok(st, Number(HostClock))
        ELSE IF method = "get" /\ args = <<>>
        THEN Err(st, Runtime("Expected 1 argument"))
        ELSE IF method = "set" /\ Len(args) < 2
        THEN Err(st, Runtime("Expected 2 arguments"))
        ELSE IF method \in {"get", "set"} /\ args[1].t # "Number"
        THEN Err(st, Runtime("Expected Number"))
        ELSE IF method = "push" /\ args = <<>>
        THEN Err(st, Runtime("Expected 1 argument"))
        ELSE IF ~this.some THEN Err(st, Panic("Expected a this value"))
        ELSE IF this.v.t # "Object" THEN Err(st, Runtime("Expected Object"))
        ELSE IF method = "init"
        THEN Done([st EXCEPT !.objects[this.v.ref].props =
                                 Insert(@, "__vec__", Vec(<<>>))], Nil)
        ELSE IF ~vec.some THEN Err(st, Panic("Missing __vec__"))
        ELSE IF vec.v.t # "Vec" THEN Err(st, Runtime("Expected Vec"))
        ELSE IF ~r.ok
        THEN Err(Log(st, [ev |-> "native", method |-> method, this |-> this.v.ref,
                          args |-> args, v |-> Nil, ok |-> FALSE]), r.err)
        ELSE Done([st EXCEPT !.objects[this.v.ref].props =
                                 Insert(@, "__vec__", Vec(r.items))], r.v)

\* `for arg in arguments.iter() { args.push(arg.eval(state, scope)?) }`
Expr_eval_args(st, arguments, scope, args) ==
    IF arguments = <<>> THEN Ok(st, args)
    ELSE LET r == call_Expr_eval(Log(st, [ev |-> "arg", id |-> Head(arguments).id]),
                            Head(arguments), scope)
         IN  IF ~r.ok THEN r
             ELSE call_Expr_eval_args(r.st, Tail(arguments), scope, Append(args, r.v))

\* "Bind arguments": the parameters declared in the closure scope
RECURSIVE BindArguments(_, _, _, _)
BindArguments(st, closure, params, args) ==
    IF args = <<>> THEN st
    ELSE BindArguments(Declare(st, Some(closure), Head(params), Head(args)),
                       closure, Tail(params), Tail(args))

\* the value the return slot is seeded with
SeedValue(func) ==
    IF func.this_value.some
    THEN IF func.is_constructor THEN func.this_value.v ELSE Nil
    ELSE Nil

\* whether the body loop of LoxFunction::call breaks after stmt
BreaksBody(stmt) == stmt.kind = "Return"

\* the body loop, after stmt.eval(state, *closure)? of each statement
LoxFunction_run_body(st, statements, closure) ==
    IF statements = <<>> THEN Ok(st, Nil)
    ELSE LET r == call_Stmt_eval(st, Head(statements), closure)
         IN  IF ~r.ok THEN r
             ELSE IF BreaksBody(Head(statements)) THEN r
             ELSE call_LoxFunction_run_body(r.st, Tail(statements), closure)

\* LoxFunction::call once the arity check has passed
LoxFunction_call_checked(st, func, scope, arguments) ==
    LET a == call_Expr_eval_args(st, arguments, scope, <<>>)
    IN  IF ~a.ok THEN a
        ELSE IF func.body.kind = "Native" THEN Native_call(a.st, func, a.v)
        ELSE LET closure == func.body.closure
                 st1 == BindArguments(a.st, closure, func.params, a.v)
                 st2 == IF func.this_value.some
                        THEN Declare(st1, Some(closure), "this", func.this_value.v)
                        ELSE st1
                 st3 == IF func.super_value.some
                        THEN Declare(st2, Some(closure), "super", func.super_value.v)
                        ELSE st2
                 act == st3.calls + 1
                 st4 == Log([st3 EXCEPT !.stack = Append(@, SeedValue(func)),
                                        !.acts = Append(@, act),
                                        !.calls = act],
                            [ev |-> "enter", act |-> act, name |-> func.name,
                             this |-> func.this_value,
                             is_constructor |-> func.is_constructor])
                 b == call_LoxFunction_run_body(st4, func.body.statements, closure)
             IN  IF ~b.ok THEN b
                 ELSE LET n == Len(b.st.stack)
                          value == b.st.stack[n]
                      IN  Ok(Log([b.st EXCEPT !.stack = SubSeq(@, 1, n - 1),
                                              !.acts = SubSeq(@, 1, n - 1)],
                                 [ev |-> "exit", act |-> act, v |-> value]),
                             value)

\* call that compares the counts only after the arguments are evaluated
LoxFunction_call_late(st, func, scope, arguments) ==
    LET st0 == Log(st, [ev |-> "call", name |-> func.name,
                        nargs |-> Len(arguments), nparams |-> Len(func.params)])
        a == call_Expr_eval_args(st0, arguments, scope, <<>>)
    IN  IF ~a.ok THEN a
        ELSE IF Len(arguments) # Len(func.params)
        THEN Err(Log(a.st, [ev |-> "arity", name |-> func.name]),
                 Runtime("Function takes a different number of argument(s)"))
        ELSE call_LoxFunction_call_checked(st0, func, scope, arguments)

\* LoxFunction::call: the arity check comes before everything else
LoxFunction_call(st, func, scope, arguments) ==
    LET st0 == Log(st, [ev |-> "call", name |-> func.name,
                        nargs |-> Len(arguments), nparams |-> Len(func.params)])
    IN  IF Len(arguments) # Len(func.params)
        THEN Err(Log(st0, [ev |-> "arity", name |-> func.name]),
                 Runtime("Function takes a different number of argument(s)"))
        ELSE call_LoxFunction_call_checked(st0, func, scope, arguments)

LoxObject_instantiate(st, class, scope, arguments) ==
    LET ref == Len(st.objects) + 1
        this_value == Object(ref)
        props == BindChain(Reverse(ClassChain(class)), this_value, None, EmptyMap)
        st1 == [st EXCEPT !.objects = Append(@, [class |-> class, props |-> props])]
        init == MapGet(props, "init")
    IN  IF init.some /\ init.v.t = "Function"
        THEN LET r == call_LoxFunction_call(st1, init.v, scope, arguments)
             IN  IF ~r.ok THEN r ELSE Ok(r.st, this_value)
        ELSE Ok(st1, this_value)

\* a Logical that never evaluates its right operand
Logical_keeps_left_always(operator, val) == TRUE

\* Or: `if !val.is_truthy()`, And: `if val.is_truthy()` guard the evaluation
\* of the right operand; otherwise val stays the left operand's value
Logical_keeps_left(operator, val) ==
    \/ operator = "Or" /\ is_truthy(val)
    \/ operator = "And" /\ ~is_truthy(val)

Expr_eval(st, expr, scope) ==
    CASE expr.kind = "Literal" -> Ok(st, expr.value)
      [] expr.kind = "Unary" ->
           IF expr.operator = "Bang"
           THEN LET r == call_Expr_eval(st, expr.right, scope)
                    value == Boolean(~is_truthy(r.v))
                IN  IF ~r.ok THEN r
                    ELSE Ok(Log(r.st, [ev |-> "unary", operator |-> expr.operator,
                                       right |-> expr.right, operand |-> Some(r.v),
                                       v |-> Some(value)]),
                            value)
           ELSE Err(Log(st, [ev |-> "unary", operator |-> expr.operator,
                             right |-> expr.right, operand |-> None, v |-> None]),
                    Runtime("Unknown unary operator"))
      [] expr.kind = "Binary" ->
           LET l == call_Expr_eval(st, expr.left, scope)
               r == call_Expr_eval(l.st, expr.right, scope)
           IN  IF ~l.ok THEN l
               ELSE IF ~r.ok THEN r
               ELSE Binary_eval(r.st, expr.operator, l.v, r.v)
      [] expr.kind = "Grouping" -> call_Expr_eval(st, expr.inner, scope)
      [] expr.kind = "Identifier" -> LoxState_resolve_local(st, scope, expr, expr.name)
      [] expr.kind = "Assignment" ->
           LET r == call_Expr_eval(st, expr.value, scope)
               depth == MapGet(r.st.locals, expr.id)
               target == IF depth.some
                         THEN Environment_ancestor_scope(r.st.env, scope, depth.v)
                         ELSE Some(GLOBAL_SCOPE)
               st1 == Log(r.st, LookupEvent(r.st, scope, expr, expr.name, target))
               a == Environment_assign(st1.env, target, expr.name, r.v)
           IN  IF ~r.ok THEN r
               ELSE IF ~target.some THEN Err(st1, Panic("Invalid ancestor scope"))
               ELSE IF ~a.ok
               THEN Err(st1, Panic("Cannot assign variable before declaration"))
               ELSE Ok([st1 EXCEPT !.env = a.env], r.v)
      [] expr.kind = "Logical" ->
           LET l == call_Expr_eval(Log(st, [ev |-> "logical_begin", id |-> expr.id]),
                                   expr.left, scope)
               r == call_Expr_eval(l.st, expr.right, scope)
               Done(rst, right, val) ==
                   Ok(Log(rst, [ev |-> "logical", id |-> expr.id, operator |-> expr.operator,
                                left |-> l.v, right |-> right, v |-> val]),
                      val)
           IN  IF expr.operator \notin {"Or", "And"}
               THEN Err(st, Runtime("Expected logical operator"))
               ELSE IF ~l.ok THEN l
               ELSE IF Logical_keeps_left(expr.operator, l.v) THEN Done(l.st, None, l.v)
               ELSE IF ~r.ok THEN r
               ELSE Done(r.st, Some(r.v), r.v)
      [] expr.kind = "Call" ->
           LET c == call_Expr_eval(st, expr.callee, scope)
           IN  IF ~c.ok THEN c
               ELSE IF c.v.t = "Function"
               THEN call_LoxFunction_call(c.st, c.v, scope, expr.arguments)
               ELSE IF c.v.t = "Class"
               THEN call_LoxObject_instantiate(c.st, c.v, scope, expr.arguments)
               ELSE Err(c.st, Runtime("Cannot call a non-function"))
      [] expr.kind = "Get" ->
           LET l == call_Expr_eval(st, expr.left, scope)
           IN  IF ~l.ok THEN l
               ELSE IF l.v.t # "Object" THEN Err(l.st, Runtime("Expected Object"))
               ELSE LET value == MapGet(l.st.objects[l.v.ref].props, expr.right)
                    IN  IF value.some THEN Ok(l.st, value.v)
                        ELSE Err(l.st, Runtime("Undefined variable"))
      [] expr.kind = "Set" ->
           LET o == call_Expr_eval(st, expr.object, scope)
               v == call_Expr_eval(o.st, expr.value, scope)
           IN  IF ~o.ok THEN o
               ELSE IF o.v.t # "Object" THEN Err(o.st, Runtime("Expected Object"))
               ELSE IF ~v.ok THEN v
               ELSE Ok([v.st EXCEPT !.objects[o.v.ref].props =
                                        Insert(@, expr.identifier, v.v)],
                       v.v)
      [] expr.kind = "This" -> LoxState_resolve_local(st, scope, expr, "this")
      [] expr.kind = "Super" ->
           LET r == LoxState_resolve_local(st, scope, expr, "super")
           IN  IF ~r.ok THEN r
               ELSE IF r.v.t # "Super" THEN Err(r.st, Runtime("Expected Super"))
               ELSE IF ContainsKey(r.v.props, expr.method)
               THEN Ok(r.st, r.v.props[expr.method])
               ELSE Err(r.st, Runtime("Undefined super method"))

\* the method table a Class statement builds: from_stmt of every method
\* definition with the current scope as closure, later names replacing
\* earlier ones
RECURSIVE ClassMethods(_, _, _)
ClassMethods(method_defs, scope, methods) ==
    IF method_defs = <<>> THEN methods
    ELSE ClassMethods(Tail(method_defs), scope,
             Insert(methods, Head(method_defs).name,
                    LoxFunction_from_stmt(Head(method_defs), scope)))

\* `for stmt in statements.iter() { stmt.eval(state, block_scope)?; }`
Stmt_eval_block(st, statements, block_scope) ==
    IF statements = <<>> THEN Ok(st, Nil)
    ELSE LET r == call_Stmt_eval(st, Head(statements), block_scope)
         IN  IF ~r.ok THEN r ELSE call_Stmt_eval_block(r.st, Tail(statements), block_scope)

\* `while condition.eval(state, while_scope)?.is_truthy() { body.eval(..)?; }`
Stmt_eval_while(st, stmt, while_scope) ==
    LET c == call_Expr_eval(st, stmt.condition, while_scope)
    IN  IF ~c.ok THEN c
        ELSE IF ~is_truthy(c.v) THEN Ok(c.st, Nil)
        ELSE LET b == call_Stmt_eval(c.st, stmt.body, while_scope)
             IN  IF ~b.ok THEN b ELSE call_Stmt_eval_while(b.st, stmt, while_scope)

Stmt_eval(st0, stmt, scope) ==
    LET st == Log(st0, [ev |-> "stmt", kind |-> stmt.kind, act |-> CurrentActivation(st0)])
    IN  CASE stmt.kind = "Expr" ->
               LET r == call_Expr_eval(st, stmt.expr, scope)
               IN  IF ~r.ok THEN r ELSE Ok(r.st, Nil)
          [] stmt.kind = "Print" ->
               LET r == call_Expr_eval(st, stmt.expr, scope)
               IN  IF ~r.ok THEN r
                   ELSE Ok([r.st EXCEPT !.out = Append(@, to_string(r.st, r.v))], Nil)
          [] stmt.kind = "Var" ->
               LET r == IF stmt.initializer.some
                        THEN call_Expr_eval(st, stmt.initializer.v, scope)
                        ELSE Ok(st, Nil)
               IN  IF ~r.ok THEN r
                   ELSE Ok(Declare(r.st, Some(scope), stmt.name, r.v), Nil)
          [] stmt.kind = "Block" ->
               LET b == Environment_new_scope(st.env, Some(scope))
               IN  IF ~b.ok THEN Err(st, Panic("Invalid scope"))
                   ELSE call_Stmt_eval_block([st EXCEPT !.env = b.env], stmt.statements, b.id)
          [] stmt.kind = "IfElse" ->
               LET c == call_Expr_eval(st, stmt.condition, scope)
               IN  IF ~c.ok THEN c
                   ELSE IF is_truthy(c.v) THEN call_Stmt_eval(c.st, stmt.body, scope)
                   ELSE IF stmt.else_branch.some
                   THEN call_Stmt_eval(c.st, stmt.else_branch.v, scope)
                   ELSE Ok(c.st, Nil)
          [] stmt.kind = "WhileLoop" ->
               LET w == Environment_new_scope(st.env, Some(scope))
               IN  IF ~w.ok THEN Err(st, Panic("Invalid scope"))
                   ELSE call_Stmt_eval_while([st EXCEPT !.env = w.env], stmt, w.id)
          [] stmt.kind = "Fun" ->
               LET c == Environment_new_scope(st.env, Some(scope))
               IN  IF ~c.ok THEN Err(st, Panic("Invalid scope"))
                   ELSE Ok(Declare([st EXCEPT !.env = c.env], Some(scope), stmt.name,
                                   LoxFunction_from_stmt(stmt, c.id)),
                           Nil)
          [] stmt.kind = "Return" ->
               \* `state.stack.len() - 1` overflows on an empty stack
               IF st.stack = <<>> THEN Err(st, Panic("attempt to subtract with overflow"))
               ELSE LET last == Len(st.stack)
                        r == call_Expr_eval(st, stmt.expr, scope)
                    IN  IF ~r.ok THEN r
                        ELSE Ok(Log([r.st EXCEPT !.stack[last] = r.v],
                                    [ev |-> "return", act |-> CurrentActivation(st),
                                     v |-> r.v]),
                                Nil)
          [] stmt.kind = "Class" ->
               LET methods == ClassMethods(stmt.methods, scope, EmptyMap)
                   sup == IF stmt.superclass.some
                          THEN LoxState_resolve_local(st, scope, stmt.superclass.v,
                                                      stmt.superclass.v.name)
                          ELSE Ok(st, Nil)
               IN  IF ~sup.ok THEN sup
                   ELSE IF stmt.superclass.some /\ sup.v.t # "Class"
                   THEN Err(sup.st, Runtime("Expected Class"))
                   ELSE Ok(Declare(sup.st, Some(scope), stmt.name,
                                   [t |-> "Class", name |-> stmt.name,
                                    superclass |-> IF stmt.superclass.some
                                                   THEN Some(sup.v) ELSE None,
                                    methods |-> methods]),
                           Nil)

Eval(f, a) ==
    CASE f = "Expr_eval" -> Expr_eval(a[1], a[2], a[3])
      [] f = "Expr_eval_args" -> Expr_eval_args(a[1], a[2], a[3], a[4])
      [] f = "Stmt_eval" -> Stmt_eval(a[1], a[2], a[3])
      [] f = "Stmt_eval_block" -> Stmt_eval_block(a[1], a[2], a[3])
      [] f = "Stmt_eval_while" -> Stmt_eval_while(a[1], a[2], a[3])
      [] f = "LoxFunction_call" -> LoxFunction_call(a[1], a[2], a[3], a[4])
      [] f = "LoxFunction_call_checked" -> LoxFunction_call_checked(a[1], a[2], a[3], a[4])
      [] f = "LoxFunction_run_body" -> LoxFunction_run_body(a[1], a[2], a[3])
      [] f = "LoxObject_instantiate" -> LoxObject_instantiate(a[1], a[2], a[3], a[4])

(***************************************************************************)
(* The programs the interpreter is run on.  Each is written as the parser  *)
(* would build it and placed in one of three declaration contexts: at      *)
(* global level, inside a block, inside the body of a function that is     *)
(* then called.                                                            *)
(***************************************************************************)
LoopBound == 2
CounterCalls == 2

Contexts == <<"global", "block", "function">>

InContext(ctx, statements) ==
    CASE ctx = "global" -> statements
      [] ctx = "block" -> <<Block(statements)>>
      [] ctx = "function" ->
           <<Fun("wrapper", <<>>, statements), ExprStmt(Call(Identifier("wrapper"), <<>>))>>

Str(s) == Literal(String(s))
Num(n) == Literal(Number(n))
True == Literal(Boolean(TRUE))
NilLiteral == Literal(Nil)
Plus(l, r) == Binary("Plus", l, r)
Less(l, r) == Binary("Less", l, r)
Call0(name) == Call(Identifier(name), <<>>)

\* FOR_LOOP_TEST (test_scripts.rs), with LoopBound for the literal 4
ForLoopTest ==
    << Var("index", Some(Num(42))),
       ForSource(Var("index", Some(Num(0))),
                 Less(Identifier("index"), Num(LoopBound)),
                 Assignment("index", Plus(Identifier("index"), Num(1))),
                 Block(<<PrintStmt(Identifier("index"))>>)),
       PrintStmt(Identifier("index")) >>

\* FUNCTION_CLOSURE_TEST, with CounterCalls calls of the counter
FunctionClosureTest ==
    << Fun("make_counter", <<>>,
           << Var("i", Some(Num(0))),
              Fun("count", <<>>,
                  << ExprStmt(Assignment("i", Plus(Identifier("i"), Num(1)))),
                     PrintStmt(Identifier("i")) >>),
              Return(Identifier("count")) >>),
       Var("counter", Some(Call0("make_counter"))) >>
    \o [k \in 1..CounterCalls |-> ExprStmt(Call0("counter"))]

\* SHADOWING_TEST
ShadowingTest ==
    << Var("a", Some(Str("global"))),
       Block(<< Fun("print_a", <<>>, <<PrintStmt(Identifier("a"))>>),
                ExprStmt(Call0("print_a")),
                Var("a", Some(Str("block"))),
                ExprStmt(Call0("print_a")) >>) >>

\* fun f() { <early>; print "after"; return 2; }  var r = f(); print r;
\* where <early> is `return 1;` directly, or nested in an if, a block or a
\* while body
EarlyReturn(nesting) ==
    CASE nesting = "direct" -> <<Return(Num(1))>>
      [] nesting = "if" -> <<IfElse(True, Return(Num(1)), None)>>
      [] nesting = "block" -> <<Block(<<Return(Num(1))>>)>>
      [] nesting = "while" ->
           << Var("n", Some(Num(0))),
              WhileLoop(Less(Identifier("n"), Num(1)),
                        Block(<< ExprStmt(Assignment("n", Plus(Identifier("n"), Num(1)))),
                                 Return(Num(1)) >>)) >>

ReturnTest(nesting) ==
    << Fun("f", <<>>, EarlyReturn(nesting) \o <<PrintStmt(Str("after")), Return(Num(2))>>),
       Var("r", Some(Call0("f"))),
       PrintStmt(Identifier("r")) >>

\* var a = 1; fun add(p) { var l = p; { a = a + l; } return a; } print add(2);
PlainFunctionTest ==
    << Var("a", Some(Num(1))),
       Fun("add", <<"p">>,
           << Var("l", Some(Identifier("p"))),
              Block(<<ExprStmt(Assignment("a", Plus(Identifier("a"), Identifier("l"))))>>),
              Return(Identifier("a")) >>),
       PrintStmt(Call(Identifier("add"), <<Num(2)>>)) >>

\* var k;
\* <in context> var a = 1; class K { m(p) { return a + p; } } k = K();
\* print k.m(2);
MethodTest(c) ==
    << Var("k", None) >>
    \o InContext(c,
         << Var("a", Some(Num(1))),
            Class("K", None,
                  <<Fun("m", <<"p">>, <<Return(Plus(Identifier("a"), Identifier("p")))>>)>>),
            ExprStmt(Assignment("k", Call0("K"))) >>)
    \o << PrintStmt(Call(Get(Identifier("k"), "m"), <<Num(2)>>)) >>

\* uses of a block-local name `loc` and of a global name `glob` in every
\* position an expression can occur in
\*   var glob = 1; fun id(x) { return x; } class Box {}
\*   { var loc = Box(); <use> }
NameUse(position) ==
    CASE position = "initializer" -> <<Var("other", Some(Identifier("loc")))>>
      [] position = "print" -> <<PrintStmt(Identifier("glob"))>>
      [] position = "if" -> <<IfElse(Identifier("loc"), PrintStmt(Identifier("glob")), None)>>
      [] position = "while" ->
           <<WhileLoop(Unary("Bang", Identifier("loc")), PrintStmt(Identifier("glob")))>>
      [] position = "argument" ->
           <<ExprStmt(Call(Identifier("id"), <<Identifier("loc")>>)),
             ExprStmt(Call(Identifier("id"), <<Identifier("glob")>>))>>
      [] position = "get" -> <<ExprStmt(Set(Identifier("loc"), "f", Num(1))),
                               PrintStmt(Get(Identifier("loc"), "f"))>>
      [] position = "set_object" -> <<ExprStmt(Set(Identifier("loc"), "f", Identifier("glob")))>>
      [] position = "set_value" ->
           <<Var("box", Some(Call0("Box"))),
             ExprStmt(Set(Identifier("box"), "f", Identifier("loc")))>>
Positions ==
    <<"initializer", "print", "if", "while", "argument", "get", "set_object", "set_value">>

NameUseTest(position) ==
    << Var("glob", Some(Num(1))),
       Fun("id", <<"x">>, <<Return(Identifier("x"))>>),
       Class("Box", None, <<>>),
       Block(<<Var("loc", Some(Call0("Box")))>> \o NameUse(position)) >>

\* var d; var e;
\* <in context>
\* class Base { m() { return "Base.m of " + this.tag; } }
\* class Derived < Base { m() { print "Derived.m"; <poke> return super.m; }
\*                        ping() { return nil; } }
\* d = Derived(); e = Derived();
\* <at global level>
\* d.tag = "d"; e.tag = "e"; var s = d.m(); print s();
\* <poke> is empty or `e.ping();`, a call of a method of another instance
InheritanceTest(c, poke) ==
    << Var("d", None), Var("e", None) >>
    \o InContext(c,
    << Class("Base", None,
             <<Fun("m", <<>>, <<Return(Plus(Str("Base.m of "), Get(This, "tag")))>>)>>),
       Class("Derived", Some(Identifier("Base")),
             << Fun("m", <<>>,
                    <<PrintStmt(Str("Derived.m"))>>
                    \o (IF poke THEN <<ExprStmt(Call(Get(Identifier("e"), "ping"), <<>>))>>
                        ELSE <<>>)
                    \o <<Return(Super("m"))>>),
                Fun("ping", <<>>, <<Return(NilLiteral)>>) >>),
       ExprStmt(Assignment("d", Call0("Derived"))),
       ExprStmt(Assignment("e", Call0("Derived"))) >>)
    \o << ExprStmt(Set(Identifier("d"), "tag", Str("d"))),
          ExprStmt(Set(Identifier("e"), "tag", Str("e"))),
          Var("s", Some(Call(Get(Identifier("d"), "m"), <<>>))),
          PrintStmt(Call0("s")) >>

\* var c;
\* <in context>
\* class A { m() { return "A.m of " + this.tag; } }  class B < A {}
\* class C < B { k() { return super.m; } }
\* c = C();
\* <at global level>
\* c.tag = "c"; var s = c.k(); print s();
ChainTest(c) ==
    << Var("c", None) >>
    \o InContext(c,
         << Class("A", None,
                  <<Fun("m", <<>>, <<Return(Plus(Str("A.m of "), Get(This, "tag")))>>)>>),
            Class("B", Some(Identifier("A")), <<>>),
            Class("C", Some(Identifier("B")), <<Fun("k", <<>>, <<Return(Super("m"))>>)>>),
            ExprStmt(Assignment("c", Call0("C"))) >>)
    \o << ExprStmt(Set(Identifier("c"), "tag", Str("c"))),
          Var("s", Some(Call(Get(Identifier("c"), "k"), <<>>))),
          PrintStmt(Call0("s")) >>

\* fun side() { print "side"; return 1; }  fun f(a) { return a; }
\* f(<arguments>);  print "unreachable";
\* with more or fewer arguments than f has parameters
ArityTest(arguments) ==
    << Fun("side", <<>>, <<PrintStmt(Str("side")), Return(Num(1))>>),
       Fun("f", <<"a">>, <<Return(Identifier("a"))>>),
       ExprStmt(Call(Identifier("f"), arguments)),
       PrintStmt(Str("unreachable")) >>
TooMany == <<Call0("side"), Call0("side")>>
TooFew == <<>>

\* fun upto(n) { var k = 0; while (k < n) { k = k + 1; } return k; }
\* print upto(1); print upto(2);
RepeatedCallTest ==
    << Fun("upto", <<"n">>,
           << Var("k", Some(Num(0))),
              WhileLoop(Less(Identifier("k"), Identifier("n")),
                        Block(<<ExprStmt(Assignment("k", Plus(Identifier("k"), Num(1))))>>)),
              Return(Identifier("k")) >>),
       PrintStmt(Call(Identifier("upto"), <<Num(1)>>)),
       PrintStmt(Call(Identifier("upto"), <<Num(2)>>)) >>

\* the programs of the resolver's tests invalid_this and constructor_return
InvalidThisTest ==
    << Fun("invalid_this", <<>>, <<Return(This)>>), ExprStmt(Call0("invalid_this")) >>
ConstructorReturnTest ==
    << Class("InvalidReturn", None, <<Fun("init", <<>>, <<Return(Str("foo"))>>)>>) >>

\* class E { <methods> }  var a = E(); var b = E();  <fields>
\* print a == b; print a != b; print a == a;
\* where <methods> is nothing or `m() { return nil; }` and <fields> sets no
\* property, the same property value on both, or different values
EqualityTest(with_method, fields) ==
    << Class("E", None,
             IF with_method THEN <<Fun("m", <<>>, <<Return(NilLiteral)>>)>> ELSE <<>>),
       Var("a", Some(Call0("E"))),
       Var("b", Some(Call0("E"))) >>
    \o (CASE fields = "none" -> <<>>
          [] fields = "same" -> << ExprStmt(Set(Identifier("a"), "x", Num(1))),
                                   ExprStmt(Set(Identifier("b"), "x", Num(1))) >>
          [] fields = "different" -> << ExprStmt(Set(Identifier("a"), "x", Num(1))),
                                        ExprStmt(Set(Identifier("b"), "x", Num(2))) >>)
    \o << PrintStmt(Binary("EqualEqual", Identifier("a"), Identifier("b"))),
          PrintStmt(Binary("BangEqual", Identifier("a"), Identifier("b"))),
          PrintStmt(Binary("EqualEqual", Identifier("a"), Identifier("a"))) >>
FieldCases == <<"none", "same", "different">>

\* print -<operand>;
NegateTest(operand) == << PrintStmt(Unary("Minus", operand)) >>
\* print !nil; print !false; print !true; print !0; print !"";
NotTest ==
    << PrintStmt(Unary("Bang", NilLiteral)),
       PrintStmt(Unary("Bang", Literal(Boolean(FALSE)))),
       PrintStmt(Unary("Bang", True)),
       PrintStmt(Unary("Bang", Num(0))),
       PrintStmt(Unary("Bang", Str(""))) >>

\* class P { init() { this.x = 1; } }  fun noop() {}
\* var p = P(); print p.x; print p.init(); print noop();
ConstructorTest ==
    << Class("P", None, <<Fun("init", <<>>, <<ExprStmt(Set(This, "x", Num(1)))>>)>>),
       Fun("noop", <<>>, <<>>),
       Var("p", Some(Call0("P"))),
       PrintStmt(Get(Identifier("p"), "x")),
       PrintStmt(Call(Get(Identifier("p"), "init"), <<>>)),
       PrintStmt(Call0("noop")) >>

\* undeclared = 1; print "after";
UndeclaredAssignTest ==
    << ExprStmt(Assignment("undeclared", Num(1))), PrintStmt(Str("after")) >>

\* one program per rule of the resolver
\*   redeclaration     { var a = 1; var a = 2; }
\*   own_initializer   { var a = a; }
\*   global_return     return 1;
\*   constructor_return, this_outside: the programs of the resolver's tests
\*   super_outside     fun f() { return super.m; }
\*   self_inheritance  class A < A {}
RuleTest(rule) ==
    CASE rule = "redeclaration" -> <<Block(<<Var("a", Some(Num(1))), Var("a", Some(Num(2)))>>)>>
      [] rule = "own_initializer" -> <<Block(<<Var("a", Some(Identifier("a")))>>)>>
      [] rule = "global_return" -> <<Return(Num(1))>>
      [] rule = "constructor_return" -> ConstructorReturnTest
      [] rule = "this_outside" -> InvalidThisTest
      [] rule = "super_outside" -> <<Fun("f", <<>>, <<Return(Super("m"))>>)>>
      [] rule = "self_inheritance" -> <<Class("A", Some(Identifier("A")), <<>>)>>
Rules ==
    <<"redeclaration", "own_initializer", "global_return", "constructor_return",
      "this_outside", "super_outside", "self_inheritance">>

\* a this or super expression outside any class, in each position
\*   print       print <e>;
\*   return      fun f() { return <e>; }
\*   get         print <e>.x;
\*   set         <e>.x = 1;
\*   if          if (<e>) print 1;
\*   while       while (<e>) print 1;
\*   argument    fun id(x) { return x; } id(<e>);
OutsideTest(e, position) ==
    CASE position = "print" -> <<PrintStmt(e)>>
      [] position = "return" -> <<Fun("f", <<>>, <<Return(e)>>)>>
      [] position = "get" -> <<PrintStmt(Get(e, "x"))>>
      [] position = "set" -> <<ExprStmt(Set(e, "x", Num(1)))>>
      [] position = "if" -> <<IfElse(e, PrintStmt(Num(1)), None)>>
      [] position = "while" -> <<WhileLoop(e, PrintStmt(Num(1)))>>
      [] position = "argument" ->
           << Fun("id", <<"x">>, <<Return(Identifier("x"))>>),
              ExprStmt(Call(Identifier("id"), <<e>>)) >>
OutsidePositions == <<"print", "return", "get", "set", "if", "while", "argument">>

\* return statements by where they stand
\*   top_level          return;
\*   top_level_block    { return 1; }
\*   function           fun f() { return 1; }
\*   method             class A { m() { return 1; } }
\*   init_value         class A { init() { return 1; } }
\*   init_bare          class A { init() { return; } }
\*   nested_in_init     class A { init() { fun g() { return 1; } } }
\* `return;` is Return of the literal nil (Parser::return_statement)
ReturnPlaceTest(place) ==
    CASE place = "top_level" -> <<Return(NilLiteral)>>
      [] place = "top_level_block" -> <<Block(<<Return(Num(1))>>)>>
      [] place = "function" -> <<Fun("f", <<>>, <<Return(Num(1))>>)>>
      [] place = "method" -> <<Class("A", None, <<Fun("m", <<>>, <<Return(Num(1))>>)>>)>>
      [] place = "init_value" -> <<Class("A", None, <<Fun("init", <<>>, <<Return(Num(1))>>)>>)>>
      [] place = "init_bare" ->
           <<Class("A", None, <<Fun("init", <<>>, <<Return(NilLiteral)>>)>>)>>
      [] place = "nested_in_init" ->
           <<Class("A", None,
                   <<Fun("init", <<>>, <<Fun("g", <<>>, <<Return(Num(1))>>)>>)>>)>>
ReturnPlaces ==
    <<"top_level", "top_level_block", "function", "method", "init_value", "init_bare",
      "nested_in_init">>

\* fun show(v) { print v; return v; }  print show(x) <operator> show(y);
LogicalTest(operator, x, y) ==
    << Fun("show", <<"v">>, <<PrintStmt(Identifier("v")), Return(Identifier("v"))>>),
       PrintStmt(Logical(operator, Call(Identifier("show"), <<x>>),
                         Call(Identifier("show"), <<y>>))) >>

LeftOperands == << NilLiteral, Literal(Boolean(FALSE)), True, Num(0), Str("s") >>
RightOperands == << NilLiteral, Num(7) >>
LogicalCases ==
    [k \in 1..(2 * Len(LeftOperands) * Len(RightOperands)) |->
        LET n == k - 1
            operator == IF n % 2 = 0 THEN "Or" ELSE "And"
            x == ((n \div 2) % Len(LeftOperands)) + 1
            y == (n \div (2 * Len(LeftOperands))) + 1
        IN  [family |-> "logical", name |-> operator \o "_" \o ToString(x) \o "_" \o ToString(y),
             ctx |-> "global",
             statements |-> LogicalTest(operator, LeftOperands[x], RightOperands[y])]]

\* CONTROL_FLOW_TEST (test_scripts.rs)
ControlFlowTest ==
    << IfElse(Logical("And", True, Grouping(Logical("Or", NilLiteral, Str("truthy")))),
              Block(<<PrintStmt(Str("true"))>>), Some(Block(<<PrintStmt(Str("false"))>>))),
       IfElse(Literal(Boolean(FALSE)),
              Block(<<PrintStmt(Str("false"))>>), Some(Block(<<PrintStmt(Str("true"))>>))) >>

\* arr.<method>(<arguments>)
ArrayCall(method, arguments) == Call(Get(Identifier("arr"), method), arguments)

\* test::array (builtins.rs)
ArrayTest ==
    << Var("arr", Some(Call(Identifier("Array"), <<>>))),
       ExprStmt(ArrayCall("push", <<Num(1)>>)),
       ExprStmt(ArrayCall("push", <<Num(2)>>)),
       ExprStmt(ArrayCall("push", <<Num(3)>>)),
       ExprStmt(ArrayCall("pop", <<>>)),
       ExprStmt(ArrayCall("set", <<Num(1), Num(4)>>)),
       PrintStmt(ArrayCall("len", <<>>)),
       PrintStmt(ArrayCall("get", <<Num(0)>>)),
       PrintStmt(ArrayCall("get", <<Num(1)>>)) >>

\* the number of push, pop and set calls of a generated Array program
MaxOps == 3
ArrayOps == << "push", "pop", "set0", "set1" >>

\* the k-th statement of a generated program, then a print of len(): push
\* stores k, set stores 10 + k, pop is printed
ArrayOpStmts(op, k) ==
    << CASE op = "push" -> ExprStmt(ArrayCall("push", <<Num(k)>>))
         [] op = "pop" -> PrintStmt(ArrayCall("pop", <<>>))
         [] op = "set0" -> ExprStmt(ArrayCall("set", <<Num(0), Num(10 + k)>>))
         [] op = "set1" -> ExprStmt(ArrayCall("set", <<Num(1), Num(10 + k)>>)),
       PrintStmt(ArrayCall("len", <<>>)) >>

RECURSIVE Power(_, _)
Power(b, n) == IF n = 0 THEN 1 ELSE b * Power(b, n - 1)

\* the operations of the code-th sequence of MaxOps operations
ArrayOpsOf(code) ==
    [k \in 1..MaxOps |-> ArrayOps[((code \div Power(Len(ArrayOps), k - 1)) % Len(ArrayOps)) + 1]]

RECURSIVE ArrayOpsStmts(_, _)
ArrayOpsStmts(ops, k) ==
    IF k > Len(ops) THEN <<>>
    ELSE ArrayOpStmts(ops[k], k) \o ArrayOpsStmts(ops, k + 1)

RECURSIVE JoinNames(_)
JoinNames(names) ==
    IF names = <<>> THEN "" ELSE "_" \o Head(names) \o JoinNames(Tail(names))

\* var arr = Array(); the operations; print arr.get(i) for i = 0, 1, ...
ArrayOpsTest(ops) ==
    << Var("arr", Some(Call(Identifier("Array"), <<>>))) >>
    \o ArrayOpsStmts(ops, 1)
    \o [i \in 1..MaxOps |-> PrintStmt(ArrayCall("get", <<Num(i - 1)>>))]

ArrayCases ==
    [c \in 1..Power(Len(ArrayOps), MaxOps) |->
        [family |-> "array", name |-> "ops" \o JoinNames(ArrayOpsOf(c - 1)), ctx |-> "global",
         statements |-> ArrayOpsTest(ArrayOpsOf(c - 1))]]

\* var arr = Array(); arr.push(1); then one get or set at the index
RangeIndexes == << -1, 0, 1, 2 >>
\* a negative index is written 0 - n
IndexExpr(index) ==
    IF index < 0 THEN Binary("Minus", Num(0), Num(0 - index)) ELSE Num(index)
ArrayRangeTest(method, index) ==
    << Var("arr", Some(Call(Identifier("Array"), <<>>))),
       ExprStmt(ArrayCall("push", <<Num(1)>>)),
       PrintStmt(ArrayCall(method, IF method = "get" THEN <<IndexExpr(index)>>
                                   ELSE <<IndexExpr(index), Num(5)>>)),
       PrintStmt(ArrayCall("len", <<>>)),
       PrintStmt(ArrayCall("get", <<Num(0)>>)) >>

ArrayRangeCases ==
    [c \in 1..(2 * Len(RangeIndexes)) |->
        LET method == IF c % 2 = 0 THEN "get" ELSE "set"
            index == RangeIndexes[((c - 1) \div 2) + 1]
        IN  [family |-> "array_range", name |-> method \o "_" \o ToString(index),
             ctx |-> "global", statements |-> ArrayRangeTest(method, index)]]

\* fun f(n) { var local = n + 10; print n; print local;
\*            n < 1 and f(n + 1);  print n; print local; }
\* f(0);
DirectRecursionTest ==
    << Fun("f", <<"n">>,
           << Var("local", Some(Plus(Identifier("n"), Num(10)))),
              PrintStmt(Identifier("n")), PrintStmt(Identifier("local")),
              ExprStmt(Logical("And", Less(Identifier("n"), Num(1)),
                               Call(Identifier("f"), <<Plus(Identifier("n"), Num(1))>>))),
              PrintStmt(Identifier("n")), PrintStmt(Identifier("local")) >>),
       ExprStmt(Call(Identifier("f"), <<Num(0)>>)) >>

\* fun ping(n) { print n; n < 2 and pong(n + 1); print n; }
\* fun pong(n) { print n; n < 2 and ping(n + 1); print n; }
\* ping(0);
IndirectRecursionTest ==
    LET Body(other) ==
            << PrintStmt(Identifier("n")),
               ExprStmt(Logical("And", Less(Identifier("n"), Num(2)),
                                Call(Identifier(other), <<Plus(Identifier("n"), Num(1))>>))),
               PrintStmt(Identifier("n")) >>
    IN  << Fun("ping", <<"n">>, Body("pong")),
           Fun("pong", <<"n">>, Body("ping")),
           ExprStmt(Call(Identifier("ping"), <<Num(0)>>)) >>

\* fun make_counter() { var i = 0; fun count() { i = i + 1; print i; } return count; }
\* var first = make_counter(); first(); first();
\* var second = make_counter(); second(); first();
TwoCountersTest ==
    << Fun("make_counter", <<>>,
           << Var("i", Some(Num(0))),
              Fun("count", <<>>,
                  << ExprStmt(Assignment("i", Plus(Identifier("i"), Num(1)))),
                     PrintStmt(Identifier("i")) >>),
              Return(Identifier("count")) >>),
       Var("first", Some(Call0("make_counter"))),
       ExprStmt(Call0("first")), ExprStmt(Call0("first")),
       Var("second", Some(Call0("make_counter"))),
       ExprStmt(Call0("second")), ExprStmt(Call0("first")) >>

\* class A { show() { print this.name; }
\*           both(other) { print this.name; other.show(); print this.name; }
\*           later() { fun f() { print this.name; } return f; } }
\* var a = A(); a.name = "a"; var b = A(); b.name = "b";
\* then  a.both(b);  or  var f = a.later(); b.show(); f();  or  a.show(); b.show();
ThisTest(use) ==
    << Class("A", None,
             << Fun("show", <<>>, <<PrintStmt(Get(This, "name"))>>),
                Fun("both", <<"other">>,
                    << PrintStmt(Get(This, "name")),
                       ExprStmt(Call(Get(Identifier("other"), "show"), <<>>)),
                       PrintStmt(Get(This, "name")) >>),
                Fun("later", <<>>,
                    << Fun("f", <<>>, <<PrintStmt(Get(This, "name"))>>),
                       Return(Identifier("f")) >>) >>),
       Var("a", Some(Call0("A"))), ExprStmt(Set(Identifier("a"), "name", Str("a"))),
       Var("b", Some(Call0("A"))), ExprStmt(Set(Identifier("b"), "name", Str("b"))) >>
    \o (CASE use = "nested_call" ->
                << ExprStmt(Call(Get(Identifier("a"), "both"), <<Identifier("b")>>)) >>
           [] use = "function_in_method" ->
                << Var("f", Some(Call(Get(Identifier("a"), "later"), <<>>))),
                   ExprStmt(Call(Get(Identifier("b"), "show"), <<>>)),
                   ExprStmt(Call0("f")) >>
           [] use = "in_turn" ->
                << ExprStmt(Call(Get(Identifier("a"), "show"), <<>>)),
                   ExprStmt(Call(Get(Identifier("b"), "show"), <<>>)),
                   ExprStmt(Call(Get(Identifier("a"), "show"), <<>>)) >>)
ThisUses == << "nested_call", "function_in_method", "in_turn" >>

\* the lines the program prints when every `this` is the receiver
ThisLines(use) ==
    CASE use = "nested_call" -> << "a", "b", "a" >>
      [] use = "function_in_method" -> << "b", "a" >>
      [] use = "in_turn" -> << "a", "b", "a" >>

\* var x = 1; class K { m(x, p) { return x; } }  class D < K { n() { return 0; } }
\* var k = K(); var d = D(); print x;
\* then  print k.m(2, 3); print x;  or  print d.n(); print x;
MethodScopeTest(call) ==
    << Var("x", Some(Num(1))),
       Class("K", None, <<Fun("m", <<"x", "p">>, <<Return(Identifier("x"))>>)>>),
       Class("D", Some(Identifier("K")), <<Fun("n", <<>>, <<Return(Num(0))>>)>>),
       Var("k", Some(Call0("K"))),
       Var("d", Some(Call0("D"))),
       PrintStmt(Identifier("x")),
       PrintStmt(IF call = "with_parameters"
                 THEN Call(Get(Identifier("k"), "m"), <<Num(2), Num(3)>>)
                 ELSE Call(Get(Identifier("d"), "n"), <<>>)),
       PrintStmt(Identifier("x")) >>
MethodCalls == << "with_parameters", "of_subclass" >>

\* fun fails() { print "in"; print missing; }  fun outer() { fails(); }
\* outer();
ErrorInBodyTest ==
    << Fun("fails", <<>>, <<PrintStmt(Str("in")), PrintStmt(Identifier("missing"))>>),
       Fun("outer", <<>>, <<ExprStmt(Call0("fails"))>>),
       ExprStmt(Call0("outer")) >>

\* parse(source): the statements of a program, expression ids handed out
\* from EXPR_COUNT's initial value
Parse(statements) == NumberStmts(statements, 0).x

InContexts(family, name, statements) ==
    [c \in 1..Len(Contexts) |->
        [family |-> family, name |-> name, ctx |-> Contexts[c],
         statements |-> InContext(Contexts[c], statements)]]

\* a program written out per context
PerContext(family, name, sources) ==
    [c \in 1..Len(Contexts) |->
        [family |-> family, name |-> name, ctx |-> Contexts[c],
         statements |-> sources[c]]]

Sources ==
    InContexts("for", "for_loop", ForLoopTest)
    \o InContexts("closure", "function_closure", FunctionClosureTest)
    \o InContexts("shadowing", "shadowing", ShadowingTest)
    \o InContexts("return", "return_direct", ReturnTest("direct"))
    \o InContexts("return", "return_if", ReturnTest("if"))
    \o InContexts("return", "return_block", ReturnTest("block"))
    \o InContexts("return", "return_while", ReturnTest("while"))
    \o InContexts("depth", "plain_function", PlainFunctionTest)
    \o PerContext("depth", "method", [c \in 1..Len(Contexts) |-> MethodTest(Contexts[c])])
    \o [k \in 1..Len(Positions) |->
           [family |-> "names", name |-> Positions[k], ctx |-> "global",
            statements |-> NameUseTest(Positions[k])]]
    \o PerContext("inheritance", "inheritance",
                  [c \in 1..Len(Contexts) |-> InheritanceTest(Contexts[c], FALSE)])
    \o PerContext("inheritance", "inheritance_poke",
                  [c \in 1..Len(Contexts) |-> InheritanceTest(Contexts[c], TRUE)])
    \o PerContext("chain", "chain", [c \in 1..Len(Contexts) |-> ChainTest(Contexts[c])])
    \o InContexts("arity", "too_many", ArityTest(TooMany))
    \o InContexts("arity", "too_few", ArityTest(TooFew))
    \o InContexts("calls", "repeated_call", RepeatedCallTest)
    \o InContexts("rejected", "invalid_this", InvalidThisTest)
    \o InContexts("rejected", "constructor_return", ConstructorReturnTest)
    \o << [family |-> "constructor", name |-> "constructor", ctx |-> "global",
            statements |-> ConstructorTest] >>
    \o InContexts("assign", "undeclared", UndeclaredAssignTest)
    \o [k \in 1..Len(Rules) |->
           [family |-> "rules", name |-> Rules[k], ctx |-> "global",
            statements |-> RuleTest(Rules[k])]]
    \o [k \in 1..Len(OutsidePositions) |->
           [family |-> "outside", name |-> "this_" \o OutsidePositions[k], ctx |-> "global",
            statements |-> OutsideTest(This, OutsidePositions[k])]]
    \o [k \in 1..Len(OutsidePositions) |->
           [family |-> "outside", name |-> "super_" \o OutsidePositions[k], ctx |-> "global",
            statements |-> OutsideTest(Super("m"), OutsidePositions[k])]]
    \o [k \in 1..Len(ReturnPlaces) |->
           [family |-> "return_places", name |-> ReturnPlaces[k], ctx |-> "global",
            statements |-> ReturnPlaceTest(ReturnPlaces[k])]]
    \o InContexts("unary", "negate_number", NegateTest(Num(1)))
    \o InContexts("unary", "negate_string", NegateTest(Str("a")))
    \o InContexts("unary", "not", NotTest)
    \o [k \in 1..Len(FieldCases) |->
           [family |-> "equality", name |-> "plain_" \o FieldCases[k], ctx |-> "global",
            statements |-> EqualityTest(FALSE, FieldCases[k])]]
    \o [k \in 1..Len(FieldCases) |->
           [family |-> "equality", name |-> "method_" \o FieldCases[k], ctx |-> "global",
            statements |-> EqualityTest(TRUE, FieldCases[k])]]
    \o LogicalCases
    \o InContexts("logical", "control_flow", ControlFlowTest)
    \o << [family |-> "array", name |-> "test_array", ctx |-> "global",
            statements |-> ArrayTest] >>
    \o InContexts("recursion", "direct", DirectRecursionTest)
    \o << [family |-> "recursion", name |-> "indirect", ctx |-> "global",
            statements |-> IndirectRecursionTest] >>
    \o InContexts("counters", "two_counters", TwoCountersTest)
    \o [k \in 1..Len(ThisUses) |->
           [family |-> "this", name |-> ThisUses[k], ctx |-> "global",
            statements |-> ThisTest(ThisUses[k])]]
    \o [k \in 1..Len(MethodCalls) |->
           [family |-> "method_scope", name |-> MethodCalls[k], ctx |-> "global",
            statements |-> MethodScopeTest(MethodCalls[k])]]
    \o InContexts("stack", "error_in_body", ErrorInBodyTest)
    \o ArrayCases
    \o ArrayRangeCases

(***************************************************************************)
(* Programs given as the tokens Scanner::scan produces for them, the Eof   *)
(* token last.                                                             *)
(***************************************************************************)
Lexemes ==
    { <<"LeftParen", "(">>, <<"RightParen", ")">>, <<"LeftBrace", "{">>, <<"RightBrace", "}">>,
      <<"Comma", ",">>, <<"Semicolon", ";">>, <<"Equal", "=">>, <<"Less", "<">>, <<"Plus", "+">>,
      <<"Fun", "fun">>, <<"Var", "var">>, <<"For", "for">>, <<"Print", "print">>, <<"Eof", "">> }

Tok(kind) == Token_new(kind, (CHOOSE entry \in Lexemes : entry[1] = kind)[2], None)
Ident(name) == Token_new("Identifier", name, None)
NumberToken(n) == Token_new("Number", ToString(n), Some(Number(n)))

\* the items of a list with a comma between each two
CommaSeparated(items) ==
    IF items = <<>> THEN <<>>
    ELSE [i \in 1..(2 * Len(items) - 1) |->
            IF i % 2 = 1 THEN items[(i + 1) \div 2] ELSE Tok("Comma")]

\* for (var i = 0; i < LoopBound; i = i + 1) { print i; }   (test::for_loop,
\* with LoopBound for the literal 4), and the same with the condition left out
ForTokens(with_condition) ==
    << Tok("For"), Tok("LeftParen"), Tok("Var"), Ident("i"), Tok("Equal"), NumberToken(0),
       Tok("Semicolon") >>
    \o (IF with_condition THEN << Ident("i"), Tok("Less"), NumberToken(LoopBound) >> ELSE << >>)
    \o << Tok("Semicolon"), Ident("i"), Tok("Equal"), Ident("i"), Tok("Plus"), NumberToken(1),
          Tok("RightParen"), Tok("LeftBrace"), Tok("Print"), Ident("i"), Tok("Semicolon"),
          Tok("RightBrace"), Tok("Eof") >>

ParamName(k) == "p" \o ToString(k)

\* fun f(p1, ..., pN) { }
ParamsTokens(N) ==
    << Tok("Fun"), Ident("f"), Tok("LeftParen") >>
    \o CommaSeparated([k \in 1..N |-> Ident(ParamName(k))])
    \o << Tok("RightParen"), Tok("LeftBrace"), Tok("RightBrace"), Tok("Eof") >>

\* f(1, ..., N);
ArgsTokens(N) ==
    << Ident("f"), Tok("LeftParen") >>
    \o CommaSeparated([k \in 1..N |-> NumberToken(k)])
    \o << Tok("RightParen"), Tok("Semicolon"), Tok("Eof") >>

Counts == << 0, 1, 2 >>

\* print 1; print <nothing or an undeclared name>; print 2;
ThreePrintsTokens(second) ==
    << Tok("Print"), NumberToken(1), Tok("Semicolon"), Tok("Print") >>
    \o second
    \o << Tok("Semicolon"), Tok("Print"), NumberToken(2), Tok("Semicolon"), Tok("Eof") >>

TokenSources ==
    << [family |-> "for_tokens", name |-> "for_loop", tokens |-> ForTokens(TRUE)],
       [family |-> "for_tokens", name |-> "for_no_condition", tokens |-> ForTokens(FALSE)],
       [family |-> "three_prints", name |-> "all_run", tokens |-> ThreePrintsTokens(<<NumberToken(3)>>)],
       [family |-> "three_prints", name |-> "syntax_error", tokens |-> ThreePrintsTokens(<<>>)],
       [family |-> "three_prints", name |-> "runtime_error",
        tokens |-> ThreePrintsTokens(<<Ident("missing")>>)] >>
    \o [k \in 1..Len(Counts) |->
           [family |-> "params", name |-> "params_" \o ToString(Counts[k]),
            tokens |-> ParamsTokens(Counts[k])]]
    \o [k \in 1..Len(Counts) |->
           [family |-> "args", name |-> "args_" \o ToString(Counts[k]),
            tokens |-> ArgsTokens(Counts[k])]]

\* every source parsed on its own, as by a fresh process
Programs ==
    {[family |-> Sources[k].family, name |-> Sources[k].name, ctx |-> Sources[k].ctx,
      tokens |-> <<>>, statements |-> Parse(Sources[k].statements), errors |-> <<>>] :
        k \in 1..Len(Sources)}
    \cup
    {LET result == Parser_parse(TokenSources[k].tokens)
     IN  [family |-> TokenSources[k].family, name |-> TokenSources[k].name, ctx |-> "global",
          tokens |-> TokenSources[k].tokens, statements |-> result.statements,
          errors |-> result.errors] : k \in 1..Len(TokenSources)}

(***************************************************************************)
(* Lox::exec as a state machine: the source is parsed, the resolver binds  *)
(* it, then the top-level statements are evaluated one after the other in  *)
(* the global scope; the first error ends the run.                         *)
(***************************************************************************)
VARIABLES program, phase, state, ip, error

vars == <<program, phase, state, ip, error>>

Statements == program.statements

Init ==
    /\ program \in Programs
    /\ phase = "parsed"
    /\ state \in {[LoxState_new(EmptyMap) EXCEPT !.hasher = h] : h \in HashOrders}
    /\ ip = 1
    /\ error = NoError

\* `if !parse_errors.is_empty()`: the errors are logged and exec returns
SyntaxErrors ==
    /\ phase = "parsed"
    /\ program.errors # <<>>
    /\ phase' = "failed"
    /\ error' = IF \E i \in DOMAIN program.errors : program.errors[i].kind = "Panic"
                THEN Panic("index out of bounds")
                ELSE Runtime("Syntax errors encountered")
    /\ UNCHANGED <<program, state, ip>>

\* Resolver::bind and the copy of its table into the interpreter's locals
Bind ==
    /\ phase = "parsed"
    /\ program.errors = <<>>
    /\ LET r == Resolver_bind(Statements)
       IN  IF r.ok
           THEN /\ state' = [state EXCEPT !.locals = r.locals]
                /\ phase' = "running"
                /\ error' = error
           ELSE /\ state' = state
                /\ phase' = "failed"
                /\ error' = r.err
    /\ UNCHANGED <<program, ip>>

\* the same iteration without the `?`: an error is dropped and the loop goes on
ExecStmt_ignoring_errors ==
    /\ phase = "running"
    /\ ip <= Len(Statements)
    /\ state' = call_Stmt_eval(state, Statements[ip], GLOBAL_SCOPE).st
    /\ ip' = ip + 1
    /\ UNCHANGED <<program, phase, error>>

\* one iteration of `for stmt in statements.iter()`
ExecStmt ==
    /\ phase = "running"
    /\ ip <= Len(Statements)
    /\ LET r == call_Stmt_eval(state, Statements[ip], GLOBAL_SCOPE)
       IN  /\ state' = r.st
           /\ IF r.ok
              THEN /\ ip' = ip + 1
                   /\ UNCHANGED <<phase, error>>
              ELSE /\ phase' = "failed"
                   /\ error' = r.err
                   /\ ip' = ip
    /\ UNCHANGED program

\* the loop is exhausted: exec returns Ok(())
Finish ==
    /\ phase = "running"
    /\ ip > Len(Statements)
    /\ phase' = "done"
    /\ UNCHANGED <<program, state, ip, error>>

Next == SyntaxErrors \/ Bind \/ ExecStmt \/ Finish

Spec == Init /\ [][Next]_vars

(***************************************************************************)
(* The parser on its own: Parser::parse applied to the tokens of a for     *)
(* statement, of a function declaration with N parameters and of a call    *)
(* with N arguments, for every N up to one more than MAX_ARGUMENTS.        *)
(***************************************************************************)
\* every sequence of at most MaxTokens tokens of these kinds, then Eof
MaxTokens == 4
TokenKinds ==
    {"Print", "Number", "Semicolon", "Var", "Identifier", "Equal", "LeftBrace", "RightBrace"}
ShortTokens(kinds) ==
    [k \in 1..Len(kinds) |->
        CASE kinds[k] = "Number" -> NumberToken(1)
          [] kinds[k] = "Identifier" -> Ident("a")
          [] OTHER -> Tok(kinds[k])]
    \o << Tok("Eof") >>

ParserInputs ==
    {[family |-> "for_tokens", name |-> "for_loop", tokens |-> ForTokens(TRUE)],
     [family |-> "for_tokens", name |-> "for_no_condition", tokens |-> ForTokens(FALSE)]}
    \cup {[family |-> "params", name |-> "params", tokens |-> ParamsTokens(N)] :
              N \in 0..(MAX_ARGUMENTS + 1)}
    \cup {[family |-> "args", name |-> "args", tokens |-> ArgsTokens(N)] :
              N \in 0..(MAX_ARGUMENTS + 1)}
    \cup {[family |-> "short", name |-> "short", tokens |-> ShortTokens(kinds)] :
              kinds \in UNION {[1..n -> TokenKinds] : n \in 0..MaxTokens}}
    \cup {[family |-> "recovery", name |-> "stops_after_semicolon",
            tokens |-> ThreePrintsTokens(<<>>)],
           [family |-> "recovery", name |-> "stops_before_keyword",
            tokens |-> ThreePrintsTokens(<<Tok("Plus"), Tok("Plus"), Tok("Print"),
                                           NumberToken(3)>>)],
           [family |-> "recovery", name |-> "two_errors",
            tokens |-> ThreePrintsTokens(<<Tok("Semicolon"), Tok("Print"), Tok("Plus"),
                                           Tok("Plus"), Tok("Print"), NumberToken(3)>>)]}

ParserInit ==
    /\ program \in {[family |-> i.family, name |-> i.name, ctx |-> "global", tokens |-> i.tokens,
                      statements |-> <<>>, errors |-> <<>>] : i \in ParserInputs}
    /\ phase = "scanned"
    /\ state = LoxState_new(EmptyMap)
    /\ ip = 1
    /\ error = NoError

ParseTokens ==
    /\ phase = "scanned"
    /\ LET result == Parser_parse(program.tokens)
       IN  program' = [program EXCEPT !.statements = result.statements, !.errors = result.errors]
    /\ phase' = "parsed"
    /\ UNCHANGED <<state, ip, error>>

ParserNext == ParseTokens

ParserSpec == ParserInit /\ [][ParserNext]_vars

Ended == phase \in {"done", "failed"}

(***************************************************************************)
(* Properties.  They are stated over the history the interpreter state     *)
(* carries: state.trace lists, in order, the statements evaluated (with    *)
(* the activation evaluating them), the variable lookups, the Return       *)
(* statements, and the steps of every call.                                *)
(***************************************************************************)
ProgramFamily == program.family
ProgramName == program.name
ProgramContext == program.ctx
Trace == state.trace
Output == state.out
Events(ev) == {i \in DOMAIN Trace : Trace[i].ev = ev}

\* C1: during a function call, once a Return statement has been evaluated,
\* directly in the body or nested in an if, a block or a while, no further
\* statement of that body is evaluated and the value of the call is the
\* value that Return wrote.
C1_ReturnEndsTheBody ==
    \A i \in Events("return") :
        /\ \A j \in Events("stmt") : j > i => Trace[j].act # Trace[i].act
        /\ \A j \in Events("exit") : Trace[j].act = Trace[i].act => Trace[j].v = Trace[i].v

\* C2: every Identifier or Assignment expression that has a depth entry d
\* and is evaluated in scope s finds its name in the variable map of
\* ancestor_scope(s, d), in plain functions and in methods, whatever scope
\* the function or class was declared in.
C2_DepthEntryLeadsToTheName ==
    \A i \in Events("lookup") :
        (Trace[i].kind \in {"Identifier", "Assignment"} /\ Trace[i].depth.some)
            => Trace[i].found

\* the uses of names (Identifier and Assignment expressions) of a program
RECURSIVE NameUses(_), NameUsesAll(_), NameUsesIn(_), NameUsesInAll(_)
NameUses(e) ==
    CASE e.kind = "Identifier" -> {[kind |-> e.kind, name |-> e.name, id |-> e.id]}
      [] e.kind = "Assignment" ->
           {[kind |-> e.kind, name |-> e.name, id |-> e.id]} \cup NameUses(e.value)
      [] e.kind = "Unary" -> NameUses(e.right)
      [] e.kind \in {"Binary", "Logical"} -> NameUses(e.left) \cup NameUses(e.right)
      [] e.kind = "Grouping" -> NameUses(e.inner)
      [] e.kind = "Call" -> NameUses(e.callee) \cup NameUsesAll(e.arguments)
      [] e.kind = "Get" -> NameUses(e.left)
      [] e.kind = "Set" -> NameUses(e.object) \cup NameUses(e.value)
      [] e.kind \in {"Literal", "This", "Super"} -> {}
NameUsesAll(es) == IF es = <<>> THEN {} ELSE NameUses(Head(es)) \cup NameUsesAll(Tail(es))
NameUsesIn(s) ==
    CASE s.kind \in {"Expr", "Print", "Return"} -> NameUses(s.expr)
      [] s.kind = "Var" -> IF s.initializer.some THEN NameUses(s.initializer.v) ELSE {}
      [] s.kind = "Block" -> NameUsesInAll(s.statements)
      [] s.kind = "IfElse" ->
           NameUses(s.condition) \cup NameUsesIn(s.body)
           \cup (IF s.else_branch.some THEN NameUsesIn(s.else_branch.v) ELSE {})
      [] s.kind = "WhileLoop" -> NameUses(s.condition) \cup NameUsesIn(s.body)
      [] s.kind = "Fun" -> NameUsesInAll(s.body)
      [] s.kind = "Class" ->
           (IF s.superclass.some THEN NameUses(s.superclass.v) ELSE {})
           \cup NameUsesInAll(s.methods)
NameUsesInAll(ss) == IF ss = <<>> THEN {} ELSE NameUsesIn(Head(ss)) \cup NameUsesInAll(Tail(ss))

\* in the programs NameUseTest every name is declared once: these in a
\* local frame (block or function), those at global level
LocalNames == {"loc", "other", "box", "x"}
GlobalNames == {"glob", "id", "Box"}

\* C3: after resolution has succeeded, every Identifier or Assignment
\* expression whose name is declared in an enclosing local frame has a
\* depth entry, wherever it occurs (initializer, if or while condition, call
\* argument, object or value of a property access or assignment), and every
\* use of a name declared only at global level has none.
C3_LocalUsesHaveDepthGlobalUsesNone ==
    (ProgramFamily = "names" /\ phase = "running") =>
        \A e \in NameUsesInAll(Statements) :
            /\ e.name \in LocalNames => ContainsKey(state.locals, e.id)
            /\ e.name \in GlobalNames => ~ContainsKey(state.locals, e.id)
\* C4: for classes Derived < Base that both define m, looking m up on an
\* instance of Derived yields Derived's definition, and super.m evaluated in
\* Derived's m yields Base's m bound to the same instance: d.m() runs
\* Derived's body and the function it returns answers for d.
C4_DerivedFirstThenSuper ==
    (ProgramFamily = "inheritance" /\ Ended) =>
        (phase = "done" /\ Output = <<"Derived.m", "Base.m of d">>)

\* C5: the super table of a class accumulates the methods of all of its
\* ancestors: in C < B < A where only A defines m, super.m evaluated in a
\* method of C yields A's m bound to the instance.
C5_SuperTableAccumulates ==
    (ProgramFamily = "chain" /\ Ended) => (phase = "done" /\ Output = <<"A.m of c">>)

Lookups(key) == {i \in Events("lookup") : Trace[i].name = key}
Declarations(key) == {i \in Events("declare") : Trace[i].key = key}
Exits(function) ==
    {j \in Events("exit") : \E i \in Events("enter") :
        Trace[i].act = Trace[j].act /\ Trace[i].name = function}

\* C6: the function make_counter returns keeps access to the local variable
\* i of that call after the call has returned: every invocation reads and
\* assigns the one captured variable, so the k-th invocation prints k.
C6_CounterClosureCounts ==
    ProgramFamily = "closure" =>
        /\ phase # "failed"
        /\ \A k \in DOMAIN Output : Output[k] = ToString(k)
        /\ phase = "done" => Len(Output) = CounterCalls
        /\ \A i \in Lookups("i") :
              /\ Trace[i].found
              /\ \A d \in Declarations("i") : Trace[i].target = Trace[d].scope
              /\ \E x \in Exits("make_counter") : x < i

C6_Witness ==
    /\ ProgramFamily = "closure"
    /\ Exits("make_counter") # {}
    /\ Len(Output) >= 2 /\ Output[1] = "1" /\ Output[2] = "2"

Min(S) == CHOOSE x \in S : \A y \in S : x <= y
Max(S) == CHOOSE x \in S : \A y \in S : x >= y

\* C7: print_a reads the name a, bound only in an outer scope where print_a
\* is declared; every call reads that outer binding, also the call made
\* after `var a` has been declared in the block print_a was declared in.
C7_ShadowDoesNotCaptureEarlierFunction ==
    ProgramFamily = "shadowing" =>
        /\ phase # "failed"
        /\ \A k \in DOMAIN Output : Output[k] = "global"
        /\ phase = "done" => Len(Output) = 2
        /\ \A i \in Lookups("a") :
              Trace[i].found /\ Trace[i].target = Trace[Min(Declarations("a"))].scope

C7_Witness ==
    /\ ProgramFamily = "shadowing"
    /\ Cardinality(Declarations("a")) = 2
    /\ \E i \in Lookups("a") : i > Max(Declarations("a"))
    /\ Output = <<"global", "global">>

\* the values of a depth table in the order of the expression ids
RECURSIVE DepthsByKey(_)
DepthsByKey(locals) ==
    IF DOMAIN locals = {} THEN <<>>
    ELSE LET k == Min(DOMAIN locals)
         IN  <<locals[k]>> \o DepthsByKey([j \in (DOMAIN locals) \ {k} |-> locals[j]])

ForLoopOutput == [k \in 1..LoopBound |-> ToString(k - 1)] \o <<"42">>

\* C8: in `var index = 42; for (var index = 0; index < n; index = index + 1)
\* { print index; } print index;` the loop variable lives in the loop's own
\* scope: condition, body and step read and write it through the recorded
\* depths (1, 2, 2, 3 at global level), and the outer variable keeps its value,
\* read again after the loop.
C8_ForLoopVariableIsLocalToTheLoop ==
    ProgramFamily = "for" =>
        /\ phase # "failed"
        /\ (ProgramContext = "global" /\ phase # "parsed") =>
               DepthsByKey(state.locals) = <<1, 2, 2, 3>>
        /\ \A k \in DOMAIN Output : Output[k] = ForLoopOutput[k]
        /\ phase = "done" => Output = ForLoopOutput
        /\ \A i \in Lookups("index") :
              /\ Trace[i].found
              /\ Trace[i].target =
                    IF Len(Output) = LoopBound + 1 /\ i = Max(Lookups("index"))
                    THEN Trace[Min(Declarations("index"))].scope
                    ELSE Trace[Max(Declarations("index"))].scope
        /\ Cardinality(Declarations("index")) = 2 =>
              Trace[Min(Declarations("index"))].scope
                  # Trace[Max(Declarations("index"))].scope

C8_Witness ==
    /\ ProgramFamily = "for"
    /\ phase = "done"
    /\ Cardinality(Lookups("index")) > LoopBound
    /\ Output[Len(Output)] = "42"

StatementsEntered(kind) == {i \in Events("stmt") : Trace[i].kind = kind}
ScopesAllocated == Cardinality({h \in DOMAIN state.env.scopes : state.env.scopes[h].some})

C10_ArityCheckedFirst ==
    \A i \in Events("call") :
        Trace[i].nargs # Trace[i].nparams =>
            /\ Len(Trace) = i + 1
            /\ Trace[i + 1].ev = "arity"
            /\ phase = "failed"
            /\ error.kind = "Runtime"
            /\ Len(state.stack) = Cardinality(Events("enter")) - Cardinality(Events("exit"))

C10_Witness ==
    /\ phase = "failed"
    /\ \E i \in Events("call") : Trace[i].nargs = 2 /\ Trace[i].nparams = 1
    /\ \E i \in Events("call") : Trace[i].name = "wrapper"
\* C11: == on two Object values is true exactly when both are the same
\* shared cell: an object compared with itself is equal and the comparison
\* terminates, two separately instantiated objects of one class are not
\* equal, also when their property maps are identical or empty; != is the
\* negation.
C11_ObjectsEqualByIdentity ==
    \A i \in Events("eq") :
        (Trace[i].left.t = "Object" /\ Trace[i].right.t = "Object") =>
            Trace[i].v = Some(Boolean((Trace[i].operator = "EqualEqual")
                                      = (Trace[i].left.ref = Trace[i].right.ref)))
\* C12: a Unary expression with operator - on an operand that evaluates to
\* Number n yields Number(-n), and on an operand of any other kind a runtime
\* error; with operator ! it yields Boolean(true) exactly when the operand
\* is nil or false.  (The operands of - are literals here: their value is
\* the literal's.)
C12_UnaryMinusAndNot ==
    \A i \in Events("unary") :
        /\ (Trace[i].operator = "Minus" /\ Trace[i].right.kind = "Literal") =>
              IF Trace[i].right.value.t = "Number"
              THEN Trace[i].v = Some(Number(0 - Trace[i].right.value.n))
              ELSE Trace[i].v = None /\ phase = "failed" /\ error.kind = "Runtime"
        /\ Trace[i].operator = "Bang" =>
              /\ Trace[i].operand.some
              /\ Trace[i].v = Some(Boolean(Trace[i].operand.v \in {Nil, Boolean(FALSE)}))
\* C13: the function bound under the name init on an instance is marked as
\* constructor, so a call of it, during instantiation or directly as
\* obj.init(), has the bound instance as its value; every other call that
\* executes no Return has the value nil.
C13_InitYieldsTheInstance ==
    \A i \in Events("enter") : \A j \in Events("exit") :
        Trace[j].act = Trace[i].act =>
            IF Trace[i].name = "init" /\ Trace[i].this.some
            THEN Trace[i].is_constructor /\ Trace[j].v = Trace[i].this.v
            ELSE (\A k \in Events("return") : Trace[k].act # Trace[i].act)
                     => Trace[j].v = Nil
\* C14: an assignment whose target name is not declared in the scope
\* selected for it (the resolved ancestor, or the global scope without a
\* depth entry) is a runtime error returned as a failure result; it does
\* not abort the interpreter, and no scope is changed (none gains the name).
C14_UndeclaredAssignmentIsRuntimeError ==
    \A i \in Events("lookup") :
        (Trace[i].kind = "Assignment" /\ ~Trace[i].found) =>
            /\ phase = "failed"
            /\ error.kind = "Runtime"
            /\ \A h \in DOMAIN state.env.scopes :
                  state.env.scopes[h].some =>
                      ~ContainsKey(state.env.scopes[h].v.vars, Trace[i].name)
\* C15: every rejection by the resolver (redeclaring a name in the same
\* local scope, reading a local in its own initializer, return outside any
\* function, return in a constructor, this or super outside a class, a class
\* inheriting from itself) is an error of kind Resolution, never Runtime.
C15_RejectionsAreResolutionErrors ==
    (ProgramFamily = "rules" /\ phase # "parsed") =>
        (phase = "failed" /\ Trace = <<>> /\ error.kind = "Resolution")
\* whether a This or Super expression occurs in e, and whether one occurs in
\* the statements ss outside every Class statement
RECURSIVE UsesThisOrSuper(_), AnyUsesThisOrSuper(_), OutsideClass(_), AnyOutsideClass(_)
UsesThisOrSuper(e) ==
    CASE e.kind \in {"This", "Super"} -> TRUE
      [] e.kind \in {"Literal", "Identifier"} -> FALSE
      [] e.kind = "Unary" -> UsesThisOrSuper(e.right)
      [] e.kind \in {"Binary", "Logical"} -> UsesThisOrSuper(e.left) \/ UsesThisOrSuper(e.right)
      [] e.kind = "Grouping" -> UsesThisOrSuper(e.inner)
      [] e.kind = "Assignment" -> UsesThisOrSuper(e.value)
      [] e.kind = "Call" -> UsesThisOrSuper(e.callee) \/ AnyUsesThisOrSuper(e.arguments)
      [] e.kind = "Get" -> UsesThisOrSuper(e.left)
      [] e.kind = "Set" -> UsesThisOrSuper(e.object) \/ UsesThisOrSuper(e.value)
AnyUsesThisOrSuper(es) == \E k \in DOMAIN es : UsesThisOrSuper(es[k])
OutsideClass(s) ==
    CASE s.kind \in {"Expr", "Print", "Return"} -> UsesThisOrSuper(s.expr)
      [] s.kind = "Var" -> s.initializer.some /\ UsesThisOrSuper(s.initializer.v)
      [] s.kind = "Block" -> AnyOutsideClass(s.statements)
      [] s.kind = "IfElse" ->
           \/ UsesThisOrSuper(s.condition)
           \/ OutsideClass(s.body)
           \/ (s.else_branch.some /\ OutsideClass(s.else_branch.v))
      [] s.kind = "WhileLoop" -> UsesThisOrSuper(s.condition) \/ OutsideClass(s.body)
      [] s.kind = "Fun" -> AnyOutsideClass(s.body)
      [] s.kind = "Class" -> FALSE
AnyOutsideClass(ss) == \E k \in DOMAIN ss : OutsideClass(ss[k])

\* C16: the resolver rejects every program in which a this or super
\* expression occurs outside a class declaration, whatever the position (a
\* return value, the object of a property access or assignment, an if or
\* while condition, a call argument): in every program that gets past the
\* resolver, all This and Super expressions are inside a class.
C16_ThisAndSuperOnlyInsideClasses ==
    AnyOutsideClass(Statements) =>
        (phase # "parsed" => (phase = "failed" /\ Trace = <<>> /\ state.locals = EmptyMap))
\* whether statement s, standing in a function of kind fn ("none" outside
\* every function, "init" directly in a method named init, "function" in any
\* other function or method), holds a return that is forbidden: one outside
\* every function, or one with a non-nil value directly in init
RECURSIVE ForbiddenReturn(_, _), AnyForbiddenReturn(_, _), ForbiddenReturnInMethods(_)
ForbiddenReturn(s, fn) ==
    CASE s.kind = "Return" ->
           \/ fn = "none"
           \/ fn = "init" /\ ~(s.expr.kind = "Literal" /\ s.expr.value = Nil)
      [] s.kind = "Block" -> AnyForbiddenReturn(s.statements, fn)
      [] s.kind = "IfElse" ->
           \/ ForbiddenReturn(s.body, fn)
           \/ (s.else_branch.some /\ ForbiddenReturn(s.else_branch.v, fn))
      [] s.kind = "WhileLoop" -> ForbiddenReturn(s.body, fn)
      [] s.kind = "Fun" -> AnyForbiddenReturn(s.body, "function")
      [] s.kind = "Class" -> ForbiddenReturnInMethods(s.methods)
      [] s.kind \in {"Expr", "Print", "Var"} -> FALSE
AnyForbiddenReturn(ss, fn) == \E k \in DOMAIN ss : ForbiddenReturn(ss[k], fn)
ForbiddenReturnInMethods(methods) ==
    \E k \in DOMAIN methods :
        AnyForbiddenReturn(methods[k].body,
                           IF methods[k].name = "init" THEN "init" ELSE "function")

\* the resolver has refused the program: nothing was evaluated
Rejected == phase = "failed" /\ Trace = <<>>

\* C17: the resolver rejects a return that is not inside any function or
\* method and a return with a non-nil value whose innermost enclosing
\* function is a method named init; a bare `return;` in init and any return
\* in another function or method, also one nested inside init, is accepted.
C17_ForbiddenReturnsRejectedOthersAccepted ==
    phase # "parsed" =>
        /\ AnyForbiddenReturn(Statements, "none") => Rejected
        /\ ProgramFamily = "return_places" =>
              (Rejected => AnyForbiddenReturn(Statements, "none"))

\* C18: no statement is evaluated unless parsing produced no error and the
\* resolution of the whole program succeeded; the top-level statements are
\* evaluated one at a time in source order, the first error ends the run,
\* and nothing is evaluated after it.
C18_NothingRunsBeforeOrAfterAnError ==
    /\ [](Trace # <<>> => program.errors = <<>> /\ Resolver_bind(Statements).ok)
    /\ [](phase = "parsed" => ip = 1 /\ Trace = <<>>)
    /\ [](phase = "done" => ip = Len(Statements) + 1)
    /\ [][/\ ~Ended
          /\ ip' \in {ip, ip + 1}
          /\ ip' = ip + 1 => Trace' # Trace
          /\ Trace' # Trace =>
                /\ phase = "running"
                /\ ip <= Len(Statements)
                /\ Len(Trace') > Len(Trace)
                /\ SubSeq(Trace', 1, Len(Trace)) = Trace
                /\ Trace'[Len(Trace) + 1].ev = "stmt"
                /\ Trace'[Len(Trace) + 1].kind = Statements[ip].kind
                /\ LET r == call_Stmt_eval(state, Statements[ip], GLOBAL_SCOPE)
                   IN  IF r.ok
                       THEN ip' = ip + 1 /\ phase' = "running" /\ error' = NoError
                       ELSE ip' = ip /\ phase' = "failed" /\ error' = r.err]_vars

C18_Witness ==
    /\ ProgramName = "runtime_error"
    /\ phase = "failed"
    /\ ip = 2
    /\ Output = <<"1">>
    /\ error = Runtime("Undefined variable")

\* C19: the parser turns `for (init; cond; step) body` into
\* Block[init, WhileLoop(cond, Block[body, Expr(step)])], no other kind of
\* node standing for the loop, and a for statement without a condition
\* parses without error, the literal true being the condition of the loop.
C19_ForBecomesWhileAndConditionDefaultsToTrue ==
    (phase = "parsed" /\ ProgramFamily = "for_tokens") =>
        /\ program.errors = <<>>
        /\ Len(Statements) = 1
        /\ LET for == Statements[1]
               while == for.statements[2]
               inner == while.body.statements
           IN  /\ for.kind = "Block" /\ Len(for.statements) = 2
               /\ for.statements[1].kind = "Var" /\ for.statements[1].name = "i"
               /\ while.kind = "WhileLoop"
               /\ while.body.kind = "Block" /\ Len(inner) = 2
               /\ inner[1].kind = "Block"
               /\ inner[1].statements[1].kind = "Print"
               /\ inner[2].kind = "Expr"
               /\ inner[2].expr.kind = "Assignment" /\ inner[2].expr.name = "i"
               /\ IF ProgramName = "for_no_condition"
                  THEN while.condition.kind = "Literal" /\ while.condition.value = Boolean(TRUE)
                  ELSE while.condition.kind = "Binary" /\ while.condition.operator = "Less"

\* C20: for every N up to MAX_ARGUMENTS, a function declaration with N
\* parameters and a call with N arguments parse without error and hold
\* exactly those N names, or those N argument expressions, in source
\* order; with MAX_ARGUMENTS + 1 of them parsing reports an error.
C20_UpToMaxParametersAndArguments ==
    (phase = "parsed" /\ ProgramFamily \in {"params", "args"}) =>
        LET IsName(token) == token.kind = "Identifier"
            IsNumber(token) == token.kind = "Number"
            names == Tail(SelectSeq(program.tokens, IsName))
            numbers == SelectSeq(program.tokens, IsNumber)
            N == IF ProgramFamily = "params" THEN Len(names) ELSE Len(numbers)
        IN  IF N > MAX_ARGUMENTS THEN program.errors # <<>>
            ELSE /\ program.errors = <<>>
                 /\ Len(Statements) = 1
                 /\ ProgramFamily = "params" =>
                        Statements[1] = Fun("f", [k \in 1..N |-> names[k].lexeme], <<>>)
                 /\ ProgramFamily = "args" =>
                        /\ Statements[1].kind = "Expr"
                        /\ Statements[1].expr.kind = "Call"
                        /\ Statements[1].expr.callee.kind = "Identifier"
                        /\ Statements[1].expr.callee.name = "f"
                        /\ Len(Statements[1].expr.arguments) = N
                        /\ \A k \in 1..N :
                              /\ Statements[1].expr.arguments[k].kind = "Literal"
                              /\ Statements[1].expr.arguments[k].value = LoxValue_from(numbers[k])

\* C21: `a or b` evaluates a first and, a being truthy, yields a's value and
\* does not evaluate b; `a and b` evaluates a first and, a being falsy,
\* yields a's value and does not evaluate b; otherwise the result is the
\* value of b itself, not a boolean made from it.
C21_LogicalShortCircuitsAndKeepsTheValue ==
    /\ \A i \in Events("logical") :
          LET e == Trace[i]
              decided == \/ e.operator = "Or" /\ is_truthy(e.left)
                         \/ e.operator = "And" /\ ~is_truthy(e.left)
          IN  IF decided THEN ~e.right.some /\ e.v = e.left
                         ELSE e.right.some /\ e.v = e.right.v
    /\ (phase = "done" /\ ProgramFamily = "logical" /\ ProgramName # "control_flow") =>
          LET logical == Statements[2].expr
              a == logical.left.arguments[1].value
              b == logical.right.arguments[1].value
              decided == \/ logical.operator = "Or" /\ is_truthy(a)
                         \/ logical.operator = "And" /\ ~is_truthy(a)
          IN  Output = IF decided
                       THEN << to_string(state, a), to_string(state, a) >>
                       ELSE << to_string(state, a), to_string(state, b), to_string(state, b) >>
    /\ (Ended /\ ProgramFamily = "logical") => phase = "done"
    /\ (phase = "done" /\ ProgramName = "control_flow") => Output = <<"true", "true">>

C21_Witness ==
    /\ phase = "done"
    /\ ProgramFamily = "logical"
    /\ Output = <<"0", "0">>
    /\ \E i \in Events("logical") :
          Trace[i].operator = "Or" /\ Trace[i].v = Number(0) /\ ~Trace[i].right.some

(***************************************************************************)
(* Array instances                                                         *)
(***************************************************************************)
\* the calls of Array natives on the instance, in order; completed ones only
\* when ok
NativeCalls(this, ok) ==
    SelectSeq(Trace, LAMBDA e : IF e.ev = "native" THEN e.this = this /\ (ok => e.ok)
                                ELSE FALSE)

\* the elements an array holds after the completed calls: push appends, pop
\* removes the last element of a non-empty array, set replaces
RECURSIVE ArrayContents(_)
ArrayContents(events) ==
    IF events = <<>> THEN <<>>
    ELSE LET before == ArrayContents(SubSeq(events, 1, Len(events) - 1))
             e == events[Len(events)]
         IN  CASE e.method = "push" -> Append(before, e.args[1])
               [] e.method = "pop" ->
                    IF before = <<>> THEN before ELSE SubSeq(before, 1, Len(before) - 1)
               [] e.method = "set" -> [before EXCEPT ![e.args[1].n + 1] = e.args[2]]
               [] OTHER -> before

ArrayRefs == {Trace[i].this : i \in {j \in DOMAIN Trace : Trace[j].ev = "native"}}

NativeCallsBefore(this, n) ==
    SelectSeq(SubSeq(Trace, 1, n), LAMBDA e : IF e.ev = "native"
                                             THEN e.this = this /\ e.ok ELSE FALSE)

\* C30: get(i) and set(i, v) of an Array with i >= len() end in the runtime
\* error 'Index out of range', leave the array as it was and never abort the
\* interpreter
C30_IndexAtOrPastTheEndIsARuntimeError ==
    \A i \in Events("native") :
        LET e == Trace[i]
            before == ArrayContents(NativeCallsBefore(e.this, i - 1))
        IN  (e.method \in {"get", "set"} /\ e.args[1].n >= Len(before)) =>
                /\ ~e.ok
                /\ error = Runtime("Index out of range")
                /\ state.objects[e.this].props["__vec__"] = Vec(before)

(***************************************************************************)
(* The scope arena                                                         *)
(***************************************************************************)
ScopeHandles == {h \in 0..(Len(state.env.scopes) - 1) : state.env.scopes[h + 1].some}
ScopeOf(h) == state.env.scopes[h + 1].v
Children(h) == {ScopeOf(h).children[k] : k \in DOMAIN ScopeOf(h).children}

\* C23: a scope made by new_scope(Some(p)) has parent p and is an element of
\* p's child list, and each entry of a scope's child list is the handle of a
\* scope whose parent is that scope
C23_ChildListsMirrorParents ==
    \A h \in ScopeHandles :
        /\ ScopeOf(h).parent.some =>
               /\ ScopeOf(h).parent.v \in ScopeHandles
               /\ h \in Children(ScopeOf(h).parent.v)
        /\ \A c \in Children(h) :
               c \in ScopeHandles /\ ScopeOf(c).parent = Some(h)

(***************************************************************************)
(* Error recovery of the parser                                            *)
(***************************************************************************)
StatementKeywords == {"Class", "Fun", "Var", "For", "If", "While", "Print", "Return"}

\* the parser may resume with c tokens consumed
ResumesAt(tokens, c) ==
    \/ c >= Len(tokens)
    \/ tokens[c].kind = "Semicolon"
    \/ tokens[c + 1].kind \in StatementKeywords

StmtKinds(statements) == [k \in DOMAIN statements |-> statements[k].kind]

\* C24: parsing a token sequence that ends with Eof terminates (every
\* declaration consumes a token) and returns the statements that parsed and
\* one error per failed declaration; after each error the parser has skipped
\* at least one token and resumes at the first position where the token
\* before is `;`, the next token is class, fun, var, for, if, while, print or
\* return, or the input is exhausted, the rest being parsed as if on its own
C24_ParserRecoversAtTheNextStatement ==
    phase = "parsed" =>
        LET tokens == program.tokens
            syncs == Parser_parse(tokens).syncs
        IN  /\ Len(program.errors) = Len(syncs)
            /\ Len(program.statements) + Len(program.errors) <= Len(tokens)
            /\ \A k \in DOMAIN program.errors : program.errors[k].kind # "Panic"
            /\ \A k \in DOMAIN syncs :
                  LET s == syncs[k]
                      rest == Parser_parse(SubSeq(tokens, s.to + 1, Len(tokens)))
                      parsed == Len(program.statements) - Len(rest.statements)
                  IN  /\ s.start <= s.from /\ s.from < s.to /\ s.to <= Len(tokens)
                      /\ ResumesAt(tokens, s.to)
                      /\ \A c \in (s.from + 1)..(s.to - 1) : ~ResumesAt(tokens, c)
                      /\ k < Len(syncs) => s.to <= syncs[k + 1].start
                      /\ parsed >= 0
                      /\ StmtKinds(rest.statements)
                             = StmtKinds(SubSeq(program.statements, parsed + 1,
                                                Len(program.statements)))
                      /\ rest.errors = SubSeq(program.errors, k + 1, Len(program.errors))

\* print 1; print ; print + + print 3; print 2;  has two errors: the parser
\* resumes after the semicolon, then before the print, and the three
\* statements that parse are returned
C24_Witness ==
    /\ phase = "parsed"
    /\ ProgramName = "two_errors"
    /\ Len(program.errors) = 2
    /\ Parser_parse(program.tokens).syncs =
           << [start |-> 3, from |-> 4, to |-> 5], [start |-> 5, from |-> 6, to |-> 8] >>
    /\ StmtKinds(program.statements) = << "Print", "Print", "Print" >>
    /\ program.statements[2].expr.value = Number(3)

(***************************************************************************)
(* Activations                                                             *)
(***************************************************************************)
\* the positions in Output of the lines printed by the statements of
\* activation act, in order: the k-th Print statement begun writes line k
PrintsOf(act) ==
    LET prints == SelectSeq([i \in DOMAIN Trace |-> i],
                            LAMBDA i : IF Trace[i].ev = "stmt"
                                       THEN Trace[i].kind = "Print" ELSE FALSE)
        mine == SelectSeq([k \in DOMAIN prints |-> k],
                          LAMBDA k : Trace[prints[k]].act = act)
    IN  SelectSeq(mine, LAMBDA k : k <= Len(Output))

Activations == {Trace[i].act : i \in Events("enter")}

\* C25: each activation of a function has its own parameters and locals: in
\* the recursive programs, where every activation prints its parameter (and
\* its local) before and after the nested call, the lines an activation
\* prints after the nested call has returned are those it printed before
C25_RecursionKeepsTheCallersBindings ==
    ProgramFamily = "recursion" =>
        /\ phase # "failed"
        /\ \A act \in Activations :
              LET lines == PrintsOf(act)
                  half == IF ProgramName = "direct" THEN 2 ELSE 1
              IN  \A k \in 1..half :
                      (half + k) \in DOMAIN lines =>
                          Output[lines[half + k]] = Output[lines[k]]

\* C26: the closures returned by two calls of make_counter capture
\* independent variables: each call declares its i in a scope of its own,
\* and the second call neither resets nor shares the i of the first closure,
\* so first(), first(), second(), first() print 1, 2, 1, 3
C26_TwoCountersAreIndependent ==
    ProgramFamily = "counters" =>
        /\ phase # "failed"
        /\ \A k \in DOMAIN Output : Output[k] = << "1", "2", "1", "3" >>[k]
        /\ \A d, e \in Declarations("i") : d # e => Trace[d].scope # Trace[e].scope

(***************************************************************************)
(* Methods                                                                 *)
(***************************************************************************)
\* C27: within a method invoked on instance a every `this` is a, also after
\* a method of another instance b has been called and has returned inside
\* the body, and inside a function declared in the method and called after
\* a method of b has run: the programs print the name of the receiver
C27_ThisIsTheReceiver ==
    ProgramFamily = "this" =>
        /\ phase # "failed"
        /\ \A k \in DOMAIN Output : Output[k] = ThisLines(ProgramName)[k]

\* the variables of the scope the classes of the program are declared in
DeclaringScopeVars == ScopeOf(GLOBAL_SCOPE).vars

\* C28: calling a method changes no variable of the scope its class was
\* declared in: x keeps the value 1 across the call of a method with a
\* parameter named x, and no binding named after a parameter, this or super
\* is visible in that scope
C28_MethodCallLeavesTheDeclaringScopeAlone ==
    ProgramFamily = "method_scope" =>
        /\ phase # "failed"
        /\ "x" \in DOMAIN DeclaringScopeVars => DeclaringScopeVars["x"] = Number(1)
        /\ DOMAIN DeclaringScopeVars \subseteq {"x", "K", "D", "k", "d"}
        /\ \A k \in DOMAIN Output :
              Output[k] = (IF ProgramName = "with_parameters" THEN << "1", "2", "1" >>
                           ELSE << "1", "0", "1" >>)[k]

(***************************************************************************)
(* The stack of return slots                                               *)
(***************************************************************************)
\* C29: the stack of return slots is balanced: a Return statement is only
\* evaluated inside an activation, whose slot is on the stack, and once the
\* calls of a statement of the program have completed, with a value or with
\* a runtime error raised in a body, the stack is as long as before them,
\* that is, empty
C29_ReturnSlotsAreBalanced ==
    /\ \A i \in Events("stmt") : Trace[i].kind = "Return" => Trace[i].act # 0
    /\ Len(state.stack) = Len(state.acts)
    /\ error.kind # "Panic" => state.stack = <<>>

============================================================================
